---- MODULE Spec2Model ----
(***************************************************************************)
(* Tenant provisioning orchestrator of the Collective Access SaaS backend  *)
(* (saas-backend/app): TenantProvisioner.provision_tenant and its resume   *)
(* path, the cluster / database / release collaborators it drives, and    *)
(* the persistent Tenant / Subscription / ProvisioningLog tables.          *)
(*                                                                         *)
(* Every database commit and every blocking external call of the code (a   *)
(* cluster API request, a MySQL round trip, a helm or kubectl subprocess)  *)
(* is one atomic step of a worker; workers interleave freely and may crash *)
(* between any two of them.  What the code does between two such calls    *)
(* (assignments to the session's objects, reads of the clock) belongs to   *)
(* the step of the call it follows, so a timestamp is read before the step *)
(* that commits it.                                                        *)
(***************************************************************************)
EXTENDS Integers, Sequences, FiniteSets, TLC

\* ------------------------------------------------------------------------
\* Bounds of the model
\* ------------------------------------------------------------------------
MaxCalls == 2
MaxFaults == 2
MaxCrashes == 1
MaxCommands == 1

\* Worker contexts that run provision_tenant concurrently.
Procs == {"w1", "w2"}

\* External subscription ids and billing event ids seen by the system.
Subs == {"sub_A"}
Events == {"evt_1"}
NoEvent == "none"

\* Strings whose characters matter are sequences of one-character strings.
HexDigits ==
    {"0", "1", "2", "3", "4", "5", "6", "7", "8", "9",
     "a", "b", "c", "d", "e", "f"}

\* Values uuid.uuid4().hex may return: 32 hexadecimal digits.
FirstUuid ==
    <<"0", "a", "1", "b", "2", "c", "3", "d", "4", "e", "5", "f",
       "6", "0", "7", "1", "8", "2", "9", "3", "a", "4", "b", "5", "c", "6", "d", "7", "e", "8", "f", "9">>
OtherUuid ==
    <<"d", "e", "a", "d", "b", "e", "e", "f",
       "0", "0", "1", "1", "2", "2", "3", "3", "4", "4", "5", "5", "6", "6", "7", "7", "8", "8", "9", "9", "a", "a", "b", "b">>
Uuids == {FirstUuid, OtherUuid}

\* tenant_suffix = uuid.uuid4().hex[:8]
tenant_suffix(u) == SubSeq(u, 1, 8)

\* The suffixes two calls may draw; two draws may coincide.
Suffixes == {tenant_suffix(u) : u \in Uuids}
FirstSuffix == tenant_suffix(FirstUuid)

\* Plan tiers a caller may name; "enterprise" is not a known tier.
Plans == {"pro", "enterprise"}

\* The subscription a checkout event carries (one event, one subscription).
SubOfEvent(e) == "sub_A"

\* The plan a checkout event carries in its metadata.
PlanOfEvent(e) == "pro"

\* Intents that reach provision_tenant: the webhook passes the event id and
\* the plan of the checkout, the manual endpoint passes no event id and the
\* plan of the request (here a tier the storage map does not know).
Intents ==
    {[sub |-> SubOfEvent(e), ev |-> e, plan |-> PlanOfEvent(e)] : e \in Events}
        \cup {[sub |-> s, ev |-> NoEvent, plan |-> "enterprise"] : s \in Subs}

\* ------------------------------------------------------------------------
\* Configuration and enumerations
\* ------------------------------------------------------------------------
KUBERNETES_NAMESPACE_PREFIX == <<"t", "e", "n", "a", "n", "t">>
BASE_DOMAIN ==
    <<"y", "o", "u", "r", "s", "a", "a", "s", ".", "c", "o", "m">>
CA_STORAGE_SIZE == "20Gi"

PENDING == "pending"
PROVISIONING == "provisioning"
ACTIVE == "active"
FAILED == "failed"
SUSPENDED == "suspended"
DELETED == "deleted"
TenantStatus == {PENDING, PROVISIONING, ACTIVE, FAILED, SUSPENDED, DELETED}

CREATE == "create"

NoError == "none"
NoTenant == 0
NoTime == 0
NoPassword == "null"
InstallerSentinel == "Installer not completed"

\* ------------------------------------------------------------------------
\* Identity generation (f-strings as concatenations of character sequences)
\* ------------------------------------------------------------------------
k8s_namespace(sfx) == KUBERNETES_NAMESPACE_PREFIX \o <<"-">> \o sfx
helm_release_name(sfx) == k8s_namespace(sfx)

ca_app_name(sfx) == <<"t", "e", "n", "a", "n", "t", "_">> \o sfx
domain_of(sfx) == k8s_namespace(sfx) \o <<".">> \o BASE_DOMAIN
db_name_of(sfx) == <<"c", "a", "_">> \o sfx
db_user_of(sfx) == <<"c", "a", "_">> \o sfx

\* Variant: the row is inserted in status provisioning, without the pending
\* commit.
NewTenant_provisioning(sfx, plan) ==
    [ namespace |-> k8s_namespace(sfx),
      helm_release_name |-> helm_release_name(sfx),
      domain |-> domain_of(sfx),
      plan |-> plan,
      status |-> "provisioning",
      db_name |-> db_name_of(sfx),
      db_user |-> db_user_of(sfx),
      ca_admin_password |-> "null",
      deployed_at |-> 0 ]

NewTenant(sfx, plan) ==
    [ namespace |-> k8s_namespace(sfx),
      helm_release_name |-> helm_release_name(sfx),
      domain |-> domain_of(sfx),
      plan |-> plan,
      status |-> PENDING,
      db_name |-> db_name_of(sfx),
      db_user |-> db_user_of(sfx),
      ca_admin_password |-> NoPassword,
      deployed_at |-> NoTime ]

NewSubscription(tid, sid) ==
    [ tenant_id |-> tid, stripe_subscription_id |-> sid, status |-> "active" ]

NewLog(tid, ev) ==
    [ tenant_id |-> tid, action |-> CREATE, status |-> "started",
      error_details |-> NoError, stripe_event_id |-> ev,
      completed_at |-> NoTime ]

VARIABLES
    tenants,        \* table tenants: sequence of rows, id = index
    subscriptions,  \* table subscriptions
    logs,           \* table provisioning_logs
    namespaces,     \* cluster: names of existing namespaces
    databases,      \* database server: existing schemata
    dbusers,        \* database server: principals with their grant
    releases,       \* release manager: deployed release names
    pc,             \* per worker: position inside provision_tenant
    args,           \* per worker: the intent of the running call
    cur,            \* per worker: locals (tenant, log, path, captured error)
    result,         \* per worker: what the call returned or raised
    calls,          \* per worker: external calls issued by the running call
    track,          \* per worker: observations about the running call
    ncalls,         \* calls started so far; also the clock of utcnow()
    nfaults,        \* collaborator failures so far
    ncrashes,       \* worker crashes so far
    interrupted,    \* intents whose attempt crashed after its first commit
    lifecycle       \* outcomes of the lifecycle commands handled so far

vars == << tenants, subscriptions, logs, namespaces, databases, dbusers,
           releases, pc, args, cur, result, calls, track, ncalls, nfaults,
           ncrashes, interrupted, lifecycle >>

dbvars == << tenants, subscriptions, logs >>
extvars == << namespaces, databases, dbusers, releases >>

\* ------------------------------------------------------------------------
\* Queries of the persistence layer
\* ------------------------------------------------------------------------
\* db.query(ProvisioningLog).filter(stripe_event_id == id).first() is not None
event_processed(ev) ==
    \E i \in 1..Len(logs) : logs[i].stripe_event_id = ev

\* db.query(Tenant).join(Subscription).filter(sid == ...).first()
TenantOfSub(sid) ==
    LET hits == { i \in 1..Len(subscriptions) :
                    /\ subscriptions[i].stripe_subscription_id = sid
                    /\ subscriptions[i].tenant_id \in 1..Len(tenants) }
    IN  IF hits = {} THEN NoTenant
        ELSE subscriptions[CHOOSE i \in hits : \A j \in hits : i <= j].tenant_id

\* unique=True on tenants.namespace and tenants.domain
TenantUniqueViolation(row) ==
    \E i \in 1..Len(tenants) :
        tenants[i].namespace = row.namespace \/ tenants[i].domain = row.domain

\* Variant: stripe_subscription_id is indexed but not unique.
SubscriptionUniqueViolation_tenant_only(row) ==
    \E i \in 1..Len(subscriptions) :
        subscriptions[i].tenant_id = row.tenant_id

\* unique=True on subscriptions.stripe_subscription_id and .tenant_id
SubscriptionUniqueViolation(row) ==
    \E i \in 1..Len(subscriptions) :
        \/ subscriptions[i].stripe_subscription_id = row.stripe_subscription_id
        \/ subscriptions[i].tenant_id = row.tenant_id

\* ------------------------------------------------------------------------
\* Cluster client (KubernetesManager)
\* ------------------------------------------------------------------------
\* core_v1.create_namespace: the API answers 409 for an existing name.
ApiCreateNamespace(nss, n) ==
    IF n \in nss THEN [status |-> 409, nss |-> nss]
    ELSE [status |-> 201, nss |-> nss \cup {n}]

\* Variant: a 409 answer is reported as a failure.
CreateNamespaceReturn_created_only(status) == status = 201

\* return value of create_namespace for the API's answer
CreateNamespaceReturn(status) == status = 201 \/ status = 409

\* o = "ok": the API answers; o = "apierr": it fails with another ApiException
create_namespace(nss, n, o) ==
    IF o = "ok"
    THEN LET r == ApiCreateNamespace(nss, n)
         IN  [nss |-> r.nss, ret |-> CreateNamespaceReturn(r.status)]
    ELSE [nss |-> nss, ret |-> CreateNamespaceReturn(500)]

\* Variant: a check that failed answers that the namespace is there.
namespace_exists_true_on_error(nss, n, o) ==
    IF o = "ok" THEN n \in nss ELSE TRUE

\* read_namespace: True on success, False on 404 and on any other ApiException
namespace_exists(nss, n, o) ==
    IF o = "ok" THEN n \in nss ELSE FALSE

\* ------------------------------------------------------------------------
\* Database provisioner (MySQL helpers)
\* ------------------------------------------------------------------------
database_exists(dbs, name) == name \in dbs

\* CREATE DATABASE [IF NOT EXISTS] name
SqlCreateDatabase(dbs, name, if_not_exists) ==
    IF name \in dbs
    THEN [ok |-> if_not_exists, dbs |-> dbs]
    ELSE [ok |-> TRUE, dbs |-> dbs \cup {name}]

\* CREATE USER [IF NOT EXISTS] user; GRANT ALL PRIVILEGES ON name.* TO user
SqlCreateUserAndGrant(users, user, if_not_exists) ==
    IF user \in users
    THEN [ok |-> if_not_exists, users |-> users]
    ELSE [ok |-> TRUE, users |-> users \cup {user}]

\* o = "ok": every statement runs; "connect_fail": pymysql.connect raises;
\* "user_fail": CREATE DATABASE ran (autocommit) and CREATE USER or GRANT
\* raises; "flush_fail": CREATE DATABASE, CREATE USER and GRANT ran and
\* FLUSH PRIVILEGES raises.  Every exception is caught and answered False;
\* what the statements before it did stays.
create_database(dbs, users, name, user, o) ==
    IF o = "connect_fail"
    THEN [dbs |-> dbs, users |-> users, ret |-> FALSE]
    ELSE LET d == SqlCreateDatabase(dbs, name, TRUE)
         IN  IF ~d.ok THEN [dbs |-> d.dbs, users |-> users, ret |-> FALSE]
             ELSE IF o = "user_fail"
             THEN [dbs |-> d.dbs, users |-> users, ret |-> FALSE]
             ELSE LET u == SqlCreateUserAndGrant(users, user, TRUE)
                  IN  [dbs |-> d.dbs, users |-> u.users,
                       ret |-> u.ok /\ o # "flush_fail"]

\* ------------------------------------------------------------------------
\* Release manager client (HelmManager)
\* ------------------------------------------------------------------------
\* helm list --filter ^release$ --short; any failure reads as "not there"
release_exists(rels, r, o) ==
    IF o = "ok" THEN r \in rels ELSE FALSE

\* helm upgrade --install: installs an absent release, upgrades a present one
HelmUpgradeInstall(rels, r) == rels \cup {r}

\* Variant: a plan the map does not know gets no storage size.
storage_size_no_default(plan) ==
    CASE plan = "starter" -> "10Gi"
      [] plan = "basic" -> "20Gi"
      [] plan = "pro" -> "100Gi"
      [] plan = "museum" -> "1Ti"
      [] OTHER -> "None"

\* storage_map.get(plan, settings.CA_STORAGE_SIZE)
storage_size(plan) ==
    CASE plan = "starter" -> "10Gi"
      [] plan = "basic" -> "20Gi"
      [] plan = "pro" -> "100Gi"
      [] plan = "museum" -> "1Ti"
      [] OTHER -> CA_STORAGE_SIZE

\* The --set values of the install command that depend on the tenant
HelmSetValues(tenant_name, domain, plan, db_name, db_user, app_name) ==
    [ tenantName |-> tenant_name, domain |-> domain,
      database_name |-> db_name, database_user |-> db_user,
      storageSize |-> storage_size(plan), caAppName |-> app_name ]

NoHelmSet == [ tenantName |-> <<>> ]

\* The ways one install_tenant call can end (see install_tenant below).
InstallOutcomes ==
    { "ok", "err", "oserror",
      "locked_history_err", "locked_history_bad_output",
      "locked_history_oserror",
      "locked_rollback_err", "locked_rollback_oserror",
      "locked_ok", "locked_retry_err", "locked_retry_oserror" }

\* The outcomes in which subprocess.run cannot start the helm process: an
\* OSError that no handler of install_tenant catches; the command did not
\* run.
HelmNotStarted ==
    { "oserror", "locked_history_oserror", "locked_rollback_oserror",
      "locked_retry_oserror" }

\* The outcomes in which an exception leaves install_tenant.
InstallRaises ==
    HelmNotStarted \cup { "locked_history_err", "locked_history_bad_output",
                          "locked_rollback_err", "locked_retry_err" }

\* The commands one install_tenant call runs when the lock recovery goes
\* through: install, history, rollback, install again.
LockRecoveryCmds ==
    <<"helm_install", "helm_history", "helm_rollback", "helm_install">>

\* Variant: a failed retry is answered by another recovery round.
install_tenant_recovers_again(rels, r, o) ==
    [ rels |-> IF o \in {"ok", "locked_ok"} THEN HelmUpgradeInstall(rels, r)
               ELSE rels,
      ok |-> o \in {"ok", "locked_ok"},
      raised |-> o \in InstallRaises,
      err |-> CASE o \in {"ok", "locked_ok"} -> "none"
                [] o = "err" -> "install_stderr"
                [] o \in HelmNotStarted -> "OSError"
                [] o = "locked_history_err" -> "history_error"
                [] o = "locked_history_bad_output" -> "history_output_error"
                [] o = "locked_rollback_err" -> "rollback_error"
                [] OTHER -> "retry_error",
      cmds |-> CASE o \in {"ok", "err"} -> <<"helm_install">>
                 [] o = "oserror" -> <<>>
                 [] o = "locked_history_oserror" ->
                        SubSeq(LockRecoveryCmds, 1, 1)
                 [] o \in {"locked_history_err", "locked_history_bad_output",
                           "locked_rollback_oserror"} ->
                        SubSeq(LockRecoveryCmds, 1, 2)
                 [] o \in {"locked_rollback_err", "locked_retry_oserror"} ->
                        SubSeq(LockRecoveryCmds, 1, 3)
                 [] o = "locked_ok" -> LockRecoveryCmds
                 [] OTHER -> LockRecoveryCmds \o Tail(LockRecoveryCmds) ]

\* Variant: a failed retry falls through to "return False, e.stderr" with
\* the error of the first install.
install_tenant_first_error(rels, r, o) ==
    [ rels |-> IF o \in {"ok", "locked_ok"} THEN HelmUpgradeInstall(rels, r)
               ELSE rels,
      ok |-> o \in {"ok", "locked_ok"},
      raised |-> o \in InstallRaises \ {"locked_retry_err"},
      err |-> CASE o \in {"ok", "locked_ok"} -> "none"
                [] o \in HelmNotStarted -> "OSError"
                [] o = "locked_history_err" -> "history_error"
                [] o = "locked_history_bad_output" -> "history_output_error"
                [] o = "locked_rollback_err" -> "rollback_error"
                [] OTHER -> "install_stderr",
      cmds |-> CASE o \in {"ok", "err"} -> <<"helm_install">>
                 [] o = "oserror" -> <<>>
                 [] o = "locked_history_oserror" ->
                        SubSeq(LockRecoveryCmds, 1, 1)
                 [] o \in {"locked_history_err", "locked_history_bad_output",
                           "locked_rollback_oserror"} ->
                        SubSeq(LockRecoveryCmds, 1, 2)
                 [] o \in {"locked_rollback_err", "locked_retry_oserror"} ->
                        SubSeq(LockRecoveryCmds, 1, 3)
                 [] OTHER -> LockRecoveryCmds ]

\* Variant: a failure without the lock signature is retried once as well.
install_tenant_retries_any_error(rels, r, o) ==
    [ rels |-> IF o \in {"ok", "locked_ok"} THEN HelmUpgradeInstall(rels, r)
               ELSE rels,
      ok |-> o \in {"ok", "locked_ok"},
      raised |-> o \in InstallRaises,
      err |-> CASE o \in {"ok", "locked_ok"} -> "none"
                [] o = "err" -> "install_stderr"
                [] o \in HelmNotStarted -> "OSError"
                [] o = "locked_history_err" -> "history_error"
                [] o = "locked_history_bad_output" -> "history_output_error"
                [] o = "locked_rollback_err" -> "rollback_error"
                [] OTHER -> "retry_error",
      cmds |-> CASE o = "ok" -> <<"helm_install">>
                 [] o = "err" -> <<"helm_install", "helm_install">>
                 [] o = "oserror" -> <<>>
                 [] o = "locked_history_oserror" ->
                        SubSeq(LockRecoveryCmds, 1, 1)
                 [] o \in {"locked_history_err", "locked_history_bad_output",
                           "locked_rollback_oserror"} ->
                        SubSeq(LockRecoveryCmds, 1, 2)
                 [] o \in {"locked_rollback_err", "locked_retry_oserror"} ->
                        SubSeq(LockRecoveryCmds, 1, 3)
                 [] OTHER -> LockRecoveryCmds ]

\* install_tenant under each behaviour of the helm CLI:
\*   ok                  the install succeeds: (True, stdout)
\*   err                 it fails without the lock signature: (False, stderr)
\*   oserror             the helm process cannot be started: subprocess.run
\*                       raises an OSError, which "except CalledProcessError"
\*                       does not catch, so it leaves install_tenant; no
\*                       command ran
\*   locked_*            it fails with the lock signature; history, rollback
\*                       and the retried install run with check=True inside
\*                       the except block, so the first of them that fails
\*                       raises CalledProcessError out of install_tenant
\*   locked_*_oserror    the helm process cannot be started for that command
\*                       of the recovery: OSError, the command did not run
\*   locked_history_bad_output
\*                       helm history exits 0 and prints an empty list or no
\*                       JSON: json.loads(...)[-1] raises IndexError or
\*                       JSONDecodeError at line 176
\* err names the error that leaves the call.
install_tenant(rels, r, o) ==
    CASE o = "ok" ->
            [ rels |-> HelmUpgradeInstall(rels, r), ok |-> TRUE,
              raised |-> FALSE, err |-> NoError,
              cmds |-> <<"helm_install">> ]
      [] o = "err" ->
            [ rels |-> rels, ok |-> FALSE, raised |-> FALSE,
              err |-> "install_stderr", cmds |-> <<"helm_install">> ]
      [] o = "oserror" ->
            [ rels |-> rels, ok |-> FALSE, raised |-> TRUE,
              err |-> "OSError", cmds |-> <<>> ]
      [] o = "locked_ok" ->
            [ rels |-> HelmUpgradeInstall(rels, r), ok |-> TRUE,
              raised |-> FALSE, err |-> NoError, cmds |-> LockRecoveryCmds ]
      [] o = "locked_history_oserror" ->
            [ rels |-> rels, ok |-> FALSE, raised |-> TRUE,
              err |-> "OSError",
              cmds |-> SubSeq(LockRecoveryCmds, 1, 1) ]
      [] o = "locked_history_err" ->
            [ rels |-> rels, ok |-> FALSE, raised |-> TRUE,
              err |-> "history_error",
              cmds |-> SubSeq(LockRecoveryCmds, 1, 2) ]
      [] o = "locked_history_bad_output" ->
            [ rels |-> rels, ok |-> FALSE, raised |-> TRUE,
              err |-> "history_output_error",
              cmds |-> SubSeq(LockRecoveryCmds, 1, 2) ]
      [] o = "locked_rollback_oserror" ->
            [ rels |-> rels, ok |-> FALSE, raised |-> TRUE,
              err |-> "OSError",
              cmds |-> SubSeq(LockRecoveryCmds, 1, 2) ]
      [] o = "locked_rollback_err" ->
            [ rels |-> rels, ok |-> FALSE, raised |-> TRUE,
              err |-> "rollback_error",
              cmds |-> SubSeq(LockRecoveryCmds, 1, 3) ]
      [] o = "locked_retry_oserror" ->
            [ rels |-> rels, ok |-> FALSE, raised |-> TRUE,
              err |-> "OSError",
              cmds |-> SubSeq(LockRecoveryCmds, 1, 3) ]
      [] OTHER ->
            [ rels |-> rels, ok |-> FALSE, raised |-> TRUE,
              err |-> "retry_error", cmds |-> LockRecoveryCmds ]

\* The helm subprocesses of one install_tenant call in the order the code
\* runs them, each a blocking subprocess.run: a worker at HelmPositions[k]
\* is about to run the k-th.
HelmPositions == <<"install", "helm_history", "helm_rollback", "helm_retry">>

HelmPosition(at) == CHOOSE k \in 1..4 : HelmPositions[k] = at

\* The command at which the call ends with outcome o: by its result, or
\* by not being startable.
EndsAt(o) ==
    CASE o \in {"ok", "err", "oserror"} -> 1
      [] o \in {"locked_history_err", "locked_history_bad_output",
                "locked_history_oserror"} -> 2
      [] o \in {"locked_rollback_err", "locked_rollback_oserror"} -> 3
      [] OTHER -> 4

\* The outcomes with which the k-th command ends the install_tenant call.
HelmEnds(k) == { o \in InstallOutcomes : EndsAt(o) = k }

\* ------------------------------------------------------------------------
\* Instance installer runner
\* ------------------------------------------------------------------------
\* What the pod lookup and the in-pod installer may do:
\*   timeout           a subprocess call raises (TimeoutExpired, OSError)
\*   no_pod            the pod lookup prints no name
\*   nonzero_exit      the installer exits with a non-zero code
\*   no_password_line  it exits 0 and no output line mentions a password
\*   password          it exits 0 and prints the credential line
InstallerOutcomes ==
    {"password", "timeout", "no_pod", "nonzero_exit", "no_password_line"}
InstallerFailures == InstallerOutcomes \ {"password"}

\* Variant: the last word of the output is returned without looking for the
\* credential line.
run_ca_installer_last_word(o) ==
    IF o = "timeout" THEN NoPassword
    ELSE IF o = "no_pod" THEN NoPassword
    ELSE IF o = "nonzero_exit" THEN NoPassword
    ELSE IF o = "password" THEN "generated"
    ELSE "done."

\* _run_ca_installer: None on every path but the one that finds the line
run_ca_installer(o) ==
    IF o = "timeout" THEN NoPassword
    ELSE IF o = "no_pod" THEN NoPassword
    ELSE IF o = "nonzero_exit" THEN NoPassword
    ELSE IF o = "password" THEN "generated"
    ELSE NoPassword

\* Variant: the credential is stored as returned, without the fallback.
AdminPasswordOf_no_fallback(ca_password) == ca_password

\* tenant.ca_admin_password = ca_password or "Installer not completed"
AdminPasswordOf(ca_password) ==
    IF ca_password = NoPassword THEN InstallerSentinel ELSE ca_password

\* ------------------------------------------------------------------------
\* The call _ensure_helm_release(...) of each path against its signature
\* ------------------------------------------------------------------------
EnsureHelmReleaseParams == 8
NewPathHelmArgs == 8
ResumeHelmArgs == 7

\* Python binds a call only when every required parameter gets an argument.
CallBinds(path) ==
    IF path = "new" THEN NewPathHelmArgs = EnsureHelmReleaseParams
    ELSE ResumeHelmArgs = EnsureHelmReleaseParams

\* ------------------------------------------------------------------------
\* Initial state: empty tables, empty cluster, idle workers
\* ------------------------------------------------------------------------
NoIntent == [sub |-> "none", ev |-> NoEvent, plan |-> "none"]
\* sfx is the local tenant_suffix of the new-tenant path; ca_password the
\* local of that name (line 172); now the value datetime.utcnow() returned
\* for the pending, not yet committed, timestamps (lines 176, 181, 193, 212).
NoLocals ==
    [ tid |-> NoTenant, lid |-> 0, path |-> "none", err |-> NoError,
      sfx |-> <<>>, ca_password |-> NoPassword, now |-> NoTime ]
NoResult == [tenant |-> NoTenant, err |-> NoError, raised |-> FALSE]
\* dup      a log row with the call's event id existed when the call began
\* recov    the call re-invokes an intent whose attempt crashed mid-way
\* faulted  some collaborator call of this call failed
\* rows     rows this call inserted
\* conflict this call's insert hit a uniqueness conflict
\* refused  the insert that hit it: tenant (the flush of line 124) or
\*          subscription (the commit of line 147)
\* ns_chk   what the namespace check met: found / notfound / error_present
\*          / error_absent (the check failed; the namespace did or did not exist)
\* db_chk   what the database check met: found / notfound / error
\* helm     how the helm CLI behaved in this call's install_tenant
\* inst     how the in-instance installer behaved in this call
\* helm_set the --set values this call's install command carried
\* status0  Tenant.status read by the existing-tenant check (resume path);
\*          pending and provisioning are recorded alike, as "unfinished"
\* t0       utcnow() when the call began
\* began_deleted  the subscription's Tenant was deleted when the call began
NoTrack ==
    [ dup |-> FALSE, recov |-> FALSE, faulted |-> FALSE, rows |-> 0,
      conflict |-> FALSE, refused |-> "none", ns_chk |-> "none",
      db_chk |-> "none",
      helm |-> "none",
      helm_set |-> NoHelmSet, inst |-> "none",
      status0 |-> "none", t0 |-> 0, began_deleted |-> FALSE ]

Init ==
    /\ tenants = <<>>
    /\ subscriptions = <<>>
    /\ logs = <<>>
    /\ namespaces = {}
    /\ databases = {}
    /\ dbusers = {}
    /\ releases = {}
    /\ pc = [p \in Procs |-> "idle"]
    /\ args = [p \in Procs |-> NoIntent]
    /\ cur = [p \in Procs |-> NoLocals]
    /\ result = [p \in Procs |-> NoResult]
    /\ calls = [p \in Procs |-> <<>>]
    /\ track = [p \in Procs |-> NoTrack]
    /\ ncalls = 0
    /\ nfaults = 0
    /\ ncrashes = 0
    /\ interrupted = {}
    /\ lifecycle = <<>>

\* datetime.utcnow(): the clock advances with every call that starts
utcnow == ncalls

\* A collaborator outcome other than "ok" is a failure and is budgeted.
FaultOk(o, good) == o = good \/ nfaults < MaxFaults
FaultCount(o, good) == IF o = good THEN nfaults ELSE nfaults + 1

Returns(p, t, e) ==
    /\ result' = [result EXCEPT ![p] = [tenant |-> t, err |-> e, raised |-> FALSE]]
    /\ pc' = [pc EXCEPT ![p] = "done"]

Raises(p, e) ==
    /\ result' = [result EXCEPT ![p] = [tenant |-> NoTenant, err |-> e, raised |-> TRUE]]
    /\ pc' = [pc EXCEPT ![p] = "done"]

\* ------------------------------------------------------------------------
\* provision_tenant, step by step
\* ------------------------------------------------------------------------
\* The worker that takes the next request.  Workers are interchangeable, so
\* a request goes to w1 whenever w1 is free and to w2 only while w1 is busy.
Takes(p) ==
    /\ pc[p] \in {"idle", "done"}
    /\ p = "w2" => pc["w1"] \notin {"idle", "done"}

\* A caller (webhook or manual endpoint) invokes provision_tenant.
Call(p, i) ==
    /\ Takes(p)
    /\ ncalls < MaxCalls
    /\ ncalls' = ncalls + 1
    /\ args' = [args EXCEPT ![p] = i]
    /\ cur' = [cur EXCEPT ![p] = NoLocals]
    /\ result' = [result EXCEPT ![p] = NoResult]
    /\ calls' = [calls EXCEPT ![p] = <<>>]
    /\ track' = [track EXCEPT ![p] =
          [ NoTrack EXCEPT
              !.dup = (/\ i.ev # NoEvent
                       /\ \E k \in 1..Len(logs) : logs[k].stripe_event_id = i.ev),
              !.recov = (/\ i \in interrupted
                         /\ TenantOfSub(i.sub) # NoTenant
                         /\ tenants[TenantOfSub(i.sub)].status
                                \in {PENDING, PROVISIONING}),
              !.t0 = ncalls + 1,
              !.began_deleted = (/\ TenantOfSub(i.sub) # NoTenant
                                 /\ tenants[TenantOfSub(i.sub)].status
                                        = DELETED) ]]
    /\ pc' = [pc EXCEPT ![p] = "guard"]
    /\ UNCHANGED << dbvars, extvars, nfaults, ncrashes, interrupted, lifecycle >>

\* Idempotency: Stripe event already processed (lines 59-68)
Guard(p) ==
    /\ pc[p] = "guard"
    /\ IF args[p].ev # NoEvent /\ event_processed(args[p].ev)
       THEN Returns(p, TenantOfSub(args[p].sub), NoError)
       ELSE /\ pc' = [pc EXCEPT ![p] = "existing"]
            /\ UNCHANGED result
    /\ UNCHANGED << dbvars, extvars, args, cur, calls, track, ncalls, nfaults,
                    ncrashes, interrupted, lifecycle >>

\* Variant: the existing Tenant is never returned as it is.
AlreadyActive_never(status) == FALSE

\* existing.status == TenantStatus.ACTIVE (line 79)
AlreadyActive(status) == status = ACTIVE

\* Existing tenant check (lines 70-83)
Existing(p) ==
    /\ pc[p] = "existing"
    /\ LET t == TenantOfSub(args[p].sub)
       IN  IF t # NoTenant
           THEN IF AlreadyActive(tenants[t].status)
                THEN /\ Returns(p, t, NoError)
                     /\ UNCHANGED << cur, track >>
                ELSE /\ cur' = [cur EXCEPT ![p].tid = t, ![p].path = "resume"]
                     /\ track' = [track EXCEPT ![p].status0 =
                           IF tenants[t].status \in {PENDING, PROVISIONING}
                           THEN "unfinished" ELSE tenants[t].status]
                     /\ pc' = [pc EXCEPT ![p] = "ns_exists"]
                     /\ UNCHANGED result
           ELSE /\ pc' = [pc EXCEPT ![p] = "insert"]
                /\ UNCHANGED << cur, track, result >>
    /\ UNCHANGED << dbvars, extvars, args, calls, ncalls, nfaults, ncrashes,
                    interrupted, lifecycle >>

\* The values uuid4().hex[:8] may return.  The draws are interchangeable, so
\* the draw for the first Tenant row is fixed; every later draw is free and
\* may coincide with an earlier one.
Draws == IF tenants = <<>> THEN {FirstSuffix} ELSE Suffixes

\* Variant: a row flushed before the failing insert stays in its table.
Discarded_keeps_flushed(table, flushed) == table \o flushed

\* db.add / db.flush / db.add / db.add / db.commit are one transaction: rows
\* flushed in a transaction that does not commit are not in the table.
Discarded(table, flushed) == table

\* New tenant: identity, Tenant + Subscription + log, first commit
\* (lines 89-147).  A uniqueness conflict raises IntegrityError out of
\* provision_tenant and the session's inserts are not committed.
Insert(p) ==
    /\ pc[p] = "insert"
    /\ \E sfx \in Draws :
         LET trow == NewTenant(sfx, args[p].plan)
             tid == Len(tenants) + 1
             srow == NewSubscription(tid, args[p].sub)
         IN  IF TenantUniqueViolation(trow) \/ SubscriptionUniqueViolation(srow)
             THEN /\ Raises(p, "IntegrityError")
                  /\ track' = [track EXCEPT
                        ![p].conflict = TRUE,
                        ![p].refused = IF TenantUniqueViolation(trow)
                                       THEN "tenant" ELSE "subscription"]
                  /\ tenants' = IF TenantUniqueViolation(trow) THEN tenants
                                ELSE Discarded(tenants, <<trow>>)
                  /\ UNCHANGED << subscriptions, logs, cur >>
             ELSE /\ tenants' = Append(tenants, trow)
                  /\ subscriptions' = Append(subscriptions, srow)
                  /\ logs' = Append(logs, NewLog(tid, args[p].ev))
                  /\ cur' = [cur EXCEPT ![p].tid = tid,
                                        ![p].lid = Len(logs) + 1,
                                        ![p].path = "new",
                                        ![p].sfx = sfx]
                  /\ track' = [track EXCEPT ![p].rows = 3,
                                            ![p].status0 = "none"]
                  /\ pc' = [pc EXCEPT ![p] = "mark_provisioning"]
                  /\ UNCHANGED result
    /\ UNCHANGED << extvars, args, calls, ncalls, nfaults, ncrashes, interrupted, lifecycle >>

\* tenant.status = PROVISIONING; commit (lines 149-150)
MarkProvisioning(p) ==
    /\ pc[p] = "mark_provisioning"
    /\ tenants' = [tenants EXCEPT ![cur[p].tid].status = PROVISIONING]
    /\ pc' = [pc EXCEPT ![p] = "ns_exists"]
    /\ UNCHANGED << subscriptions, logs, extvars, args, cur, result, calls,
                    track, ncalls, nfaults, ncrashes, interrupted, lifecycle >>

\* Variant: the step creates without looking at the check.
NeedsCreate_always(answer) == TRUE

\* "if not exists(...)": a step creates only when its check answered False.
NeedsCreate(answer) == ~answer

\* Variant: the exception is swallowed and the attempt goes on to its end.
Caught_goes_on(p, e) ==
    /\ cur' = [cur EXCEPT ![p].err = e]
    /\ pc' = [pc EXCEPT ![p] = "succeed"]

\* An exception inside the try block: the handler takes it and prepares the
\* failure (lines 187-193, 217-218); on the new-tenant path it reads the
\* clock for the log's completion time (line 193).  The commit is the next
\* step.
Caught(p, e) ==
    /\ cur' = [cur EXCEPT ![p].err = e,
                           ![p].now = IF cur[p].path = "new" THEN utcnow
                                      ELSE @]
    /\ pc' = [pc EXCEPT ![p] = "fail"]

\* _ensure_namespace, first half: k8s.namespace_exists (lines 226-227)
NamespaceExists(p) ==
    /\ pc[p] = "ns_exists"
    /\ \E o \in {"ok", "apierr", "raise"} :
         LET ns == tenants[cur[p].tid].namespace
             ans == namespace_exists(namespaces, ns, o)
         IN  /\ FaultOk(o, "ok")
             /\ nfaults' = FaultCount(o, "ok")
             /\ calls' = [calls EXCEPT ![p] = Append(@, "namespace_exists")]
             /\ track' = [track EXCEPT
                   ![p].faulted = @ \/ o # "ok",
                   ![p].ns_chk =
                       IF o = "ok"
                       THEN (IF ans THEN "found" ELSE "notfound")
                       ELSE (IF ns \in namespaces THEN "error_present"
                             ELSE "error_absent") ]
             /\ IF o = "raise" THEN Caught(p, "ConnectionError")
                ELSE /\ pc' = [pc EXCEPT ![p] =
                                 IF NeedsCreate(ans) THEN "ns_create"
                                 ELSE "db_exists"]
                     /\ UNCHANGED cur
    /\ UNCHANGED << dbvars, extvars, args, result, ncalls, ncrashes, interrupted, lifecycle >>

\* _ensure_namespace, second half: k8s.create_namespace (lines 228-230).
\* create_namespace catches ApiException only: any other exception of the
\* client (the API server cannot be reached) leaves it and is caught by
\* the try block of the attempt.
CreateNamespace(p) ==
    /\ pc[p] = "ns_create"
    /\ \E o \in {"ok", "apierr", "raise"} :
         LET ns == tenants[cur[p].tid].namespace
             r == create_namespace(namespaces, ns, o)
         IN  /\ FaultOk(o, "ok")
             /\ nfaults' = FaultCount(o, "ok")
             /\ calls' = [calls EXCEPT ![p] = Append(@, "create_namespace")]
             /\ track' = [track EXCEPT ![p].faulted = @ \/ o # "ok"]
             /\ namespaces' = r.nss
             /\ IF o = "raise" THEN Caught(p, "ConnectionError")
                ELSE IF r.ret
                THEN /\ pc' = [pc EXCEPT ![p] = "db_exists"]
                     /\ UNCHANGED cur
                ELSE Caught(p, "Failed to create namespace")
    /\ UNCHANGED << dbvars, databases, dbusers, releases, args, result, ncalls,
                    ncrashes, interrupted, lifecycle >>

\* After the database step both paths call _ensure_helm_release; the call
\* of the resume path (lines 206-209) omits ca_app_name, so Python raises
\* TypeError before the function body runs, inside the try block.
AfterDatabase(p) ==
    IF CallBinds(cur[p].path)
    THEN /\ pc' = [pc EXCEPT ![p] = "rel_exists"]
         /\ UNCHANGED cur
    ELSE Caught(p, "TypeError")

\* _ensure_database, first half: _database_exists (lines 232-234, 275-290)
DatabaseExists(p) ==
    /\ pc[p] = "db_exists"
    /\ \E o \in {"ok", "raise"} :
         LET db == tenants[cur[p].tid].db_name
             ans == database_exists(databases, db)
         IN  /\ FaultOk(o, "ok")
             /\ nfaults' = FaultCount(o, "ok")
             /\ calls' = [calls EXCEPT ![p] = Append(@, "database_exists")]
             /\ track' = [track EXCEPT
                   ![p].faulted = @ \/ o # "ok",
                   ![p].db_chk = IF o # "ok" THEN "error"
                                 ELSE IF ans THEN "found" ELSE "notfound" ]
             /\ IF o = "raise" THEN Caught(p, "OperationalError")
                ELSE IF NeedsCreate(ans)
                THEN /\ pc' = [pc EXCEPT ![p] = "db_create"]
                     /\ UNCHANGED cur
                ELSE AfterDatabase(p)
    /\ UNCHANGED << dbvars, extvars, args, result, ncalls, ncrashes, interrupted, lifecycle >>

\* _ensure_database, second half: _create_database (lines 235-236, 292-310)
\* up to its first statement: pymysql.connect and CREATE DATABASE IF NOT
\* EXISTS on an autocommit connection.  The database is there, visible to
\* every other connection, before the principal is created.
CreateDatabase(p) ==
    /\ pc[p] = "db_create"
    /\ \E o \in {"ok", "connect_fail"} :
         LET t == tenants[cur[p].tid]
             d == SqlCreateDatabase(databases, t.db_name, TRUE)
         IN  /\ FaultOk(o, "ok")
             /\ nfaults' = FaultCount(o, "ok")
             /\ calls' = [calls EXCEPT ![p] = Append(@, "create_database")]
             /\ IF o = "ok" /\ d.ok
                THEN /\ databases' = d.dbs
                     /\ pc' = [pc EXCEPT ![p] = "db_user"]
                     /\ UNCHANGED << cur, track >>
                ELSE /\ databases' =
                          create_database(databases, dbusers, t.db_name,
                                          t.db_user, o).dbs
                     /\ track' = [track EXCEPT ![p].faulted = TRUE]
                     /\ Caught(p, "Failed to create tenant database")
    /\ UNCHANGED << dbvars, namespaces, dbusers, releases, args, result,
                    ncalls, ncrashes, interrupted, lifecycle >>

\* _create_database, second statement (line 303): CREATE USER IF NOT
\* EXISTS.  The principal has no privilege yet; a failure is caught and
\* answered False (lines 308-310).
CreateUser(p) ==
    /\ pc[p] = "db_user"
    /\ \E o \in {"ok", "user_fail"} :
         /\ FaultOk(o, "ok")
         /\ nfaults' = FaultCount(o, "ok")
         /\ track' = [track EXCEPT ![p].faulted = @ \/ o # "ok"]
         /\ IF o = "ok"
            THEN /\ pc' = [pc EXCEPT ![p] = "db_grant"]
                 /\ UNCHANGED cur
            ELSE Caught(p, "Failed to create tenant database")
    /\ UNCHANGED << dbvars, extvars, args, result, calls, ncalls, ncrashes,
                    interrupted, lifecycle >>

\* _create_database, third statement (line 304): GRANT ALL PRIVILEGES on
\* the autocommit connection; the principal with its grant is there, visible
\* to every other connection, before FLUSH PRIVILEGES runs.
GrantDatabase(p) ==
    /\ pc[p] = "db_grant"
    /\ \E o \in {"ok", "user_fail"} :
         LET t == tenants[cur[p].tid]
             u == SqlCreateUserAndGrant(dbusers, t.db_user, TRUE)
         IN  /\ FaultOk(o, "ok")
             /\ nfaults' = FaultCount(o, "ok")
             /\ track' = [track EXCEPT ![p].faulted = @ \/ o # "ok"]
             /\ IF o = "ok" /\ u.ok
                THEN /\ dbusers' = u.users
                     /\ pc' = [pc EXCEPT ![p] = "db_flush"]
                     /\ UNCHANGED cur
                ELSE /\ UNCHANGED dbusers
                     /\ Caught(p, "Failed to create tenant database")
    /\ UNCHANGED << dbvars, namespaces, databases, releases, args, result,
                    calls, ncalls, ncrashes, interrupted, lifecycle >>

\* _create_database, last statement (lines 305-310): FLUSH PRIVILEGES; the
\* call returns True after it and False when it raises.  A failing FLUSH
\* PRIVILEGES leaves the principal with its grant and still fails the call.
FlushPrivileges(p) ==
    /\ pc[p] = "db_flush"
    /\ \E o \in {"ok", "flush_fail"} :
         /\ FaultOk(o, "ok")
         /\ nfaults' = FaultCount(o, "ok")
         /\ track' = [track EXCEPT ![p].faulted = @ \/ o # "ok"]
         /\ IF o = "ok"
            THEN AfterDatabase(p)
            ELSE Caught(p, "Failed to create tenant database")
    /\ UNCHANGED << dbvars, extvars, args, result, calls, ncalls, ncrashes,
                    interrupted, lifecycle >>

\* After _ensure_helm_release the new-tenant path runs the in-instance
\* installer (line 172); the resume path goes to its commit (211-213).
AfterRelease(path) == IF path = "new" THEN "installer" ELSE "succeed"

\* _ensure_helm_release has returned.  The resume path then prepares its
\* success (lines 211-212) and reads the clock for the deployment time.
ReleaseDone(p) ==
    /\ pc' = [pc EXCEPT ![p] = AfterRelease(cur[p].path)]
    /\ cur' = IF cur[p].path = "new" THEN cur
              ELSE [cur EXCEPT ![p].now = utcnow]

\* _ensure_helm_release, first half: HelmManager.release_exists (253-254)
ReleaseExists(p) ==
    /\ pc[p] = "rel_exists"
    /\ \E o \in {"ok", "fail"} :
         LET rel == tenants[cur[p].tid].helm_release_name
             ans == release_exists(releases, rel, o)
         IN  /\ FaultOk(o, "ok")
             /\ nfaults' = FaultCount(o, "ok")
             /\ calls' = [calls EXCEPT ![p] = Append(@, "release_exists")]
             /\ track' = [track EXCEPT ![p].faulted = @ \/ o # "ok"]
             /\ IF NeedsCreate(ans)
                THEN /\ pc' = [pc EXCEPT ![p] = "install"]
                     /\ UNCHANGED cur
                ELSE ReleaseDone(p)
    /\ UNCHANGED << dbvars, extvars, args, result, ncalls, ncrashes,
                    interrupted, lifecycle >>

\* _ensure_helm_release, second half: HelmManager.install_tenant (256-268),
\* one helm subprocess per step.  The first install that fails with the lock
\* signature, and a history or rollback that succeeds, let the call go on
\* to its next command; every other result ends the call as install_tenant
\* says.
Install(p) ==
    /\ pc[p] \in {HelmPositions[k] : k \in 1..4}
    /\ LET k == HelmPosition(pc[p])
           rel == tenants[cur[p].tid].helm_release_name
           hs == IF k = 1
                 THEN HelmSetValues(helm_release_name(cur[p].sfx),
                                    domain_of(cur[p].sfx),
                                    args[p].plan,
                                    db_name_of(cur[p].sfx),
                                    db_user_of(cur[p].sfx),
                                    ca_app_name(cur[p].sfx))
                 ELSE track[p].helm_set
       IN  \/ /\ k < 4
              /\ FaultOk(IF k = 1 THEN "locked" ELSE "ok", "ok")
              /\ nfaults' = FaultCount(IF k = 1 THEN "locked" ELSE "ok", "ok")
              /\ calls' = [calls EXCEPT ![p] = Append(@, LockRecoveryCmds[k])]
              /\ track' = [track EXCEPT ![p].faulted = TRUE,
                                        ![p].helm = "locked",
                                        ![p].helm_set = hs]
              /\ pc' = [pc EXCEPT ![p] = HelmPositions[k + 1]]
              /\ UNCHANGED << releases, cur >>
           \/ \E o \in HelmEnds(k) :
                LET r == install_tenant(releases, rel, o)
                IN  /\ FaultOk(IF r.ok THEN "ok" ELSE o, "ok")
                    /\ nfaults' = FaultCount(IF r.ok THEN "ok" ELSE o, "ok")
                    /\ calls' = [calls EXCEPT ![p] =
                                   @ \o SubSeq(r.cmds, k, Len(r.cmds))]
                    /\ track' = [track EXCEPT ![p].faulted = @ \/ o # "ok",
                                              ![p].helm = o,
                                              ![p].helm_set = hs]
                    /\ releases' = r.rels
                    /\ IF r.raised THEN Caught(p, r.err)
                       ELSE IF ~r.ok THEN Caught(p, "Helm install failed")
                       ELSE ReleaseDone(p)
    /\ UNCHANGED << dbvars, namespaces, databases, dbusers, args, result,
                    ncalls, ncrashes, interrupted, lifecycle >>

\* Call c is among the external calls of the worker's running call.
InCalls(p, c) == \E k \in 1..Len(calls[p]) : calls[p][k] = c

\* _run_ca_installer (lines 172, 316-362): time.sleep(30), kubectl get pod
\* (timeout 30), kubectl exec (timeout 120); it comes back with a credential
\* or None and never raises.  The worker then prepares the success on the
\* session's objects (lines 175-181), reading the clock for the deployment
\* and completion times.  Nothing is committed yet: the Tenant stays
\* provisioning and the log started until the next step.
RunInstaller(p) ==
    /\ pc[p] = "installer"
    /\ \E o \in InstallerOutcomes :
         /\ FaultOk(o, "password")
         /\ nfaults' = FaultCount(o, "password")
         /\ track' = [track EXCEPT
               ![p].faulted = @ \/ o \in InstallerFailures,
               ![p].inst = o]
         /\ cur' = [cur EXCEPT ![p].ca_password = run_ca_installer(o),
                                ![p].now = utcnow]
    /\ calls' = [calls EXCEPT ![p] = Append(@, "ca_installer")]
    /\ pc' = [pc EXCEPT ![p] = "succeed"]
    /\ UNCHANGED << dbvars, extvars, args, result, ncalls, ncrashes,
                    interrupted, lifecycle >>

\* The success commit (line 183; resume path line 213) of what the worker
\* prepared: Tenant active with the deployment time read before, on the new
\* path the credential or the sentinel and the log closed completed.
Succeed(p) ==
    /\ pc[p] = "succeed"
    /\ LET tid == cur[p].tid
           new == cur[p].path = "new"
       IN  /\ tenants' = [tenants EXCEPT
                 ![tid].status = ACTIVE,
                 ![tid].deployed_at = cur[p].now,
                 ![tid].ca_admin_password =
                     IF new THEN AdminPasswordOf(cur[p].ca_password) ELSE @ ]
           /\ logs' = IF new
                      THEN [logs EXCEPT
                              ![cur[p].lid].status = "completed",
                              ![cur[p].lid].completed_at = cur[p].now]
                      ELSE logs
           /\ Returns(p, tid, NoError)
    /\ UNCHANGED << subscriptions, extvars, args, cur, calls, track, ncalls,
                    nfaults, ncrashes, interrupted, lifecycle >>

\* The UPDATE the session flushes for tenant.status = FAILED.  The new
\* path assigns after the commits of lines 147 and 150 expired the object:
\* the column is written whatever the row holds.  The resume path assigns
\* to the object as the existing-tenant check loaded it (lines 71-76): when
\* it was loaded failed the attribute does not change and the commit sends
\* no UPDATE, so the row keeps what another writer committed meanwhile.
FailedStatusWrite(p, tid) ==
    IF cur[p].path = "resume" /\ track[p].status0 = FAILED
    THEN tenants
    ELSE [tenants EXCEPT ![tid].status = FAILED]

\* Variant: the handler deletes the namespace of the failed attempt.
Fail_compensates(p) ==
    /\ pc[p] = "fail"
    /\ LET tid == cur[p].tid
       IN  /\ tenants' = FailedStatusWrite(p, tid)
           /\ logs' = IF cur[p].path = "new"
                      THEN [logs EXCEPT
                              ![cur[p].lid].status = "failed",
                              ![cur[p].lid].error_details = cur[p].err,
                              ![cur[p].lid].completed_at = cur[p].now]
                      ELSE logs
           /\ namespaces' = namespaces \ {tenants[tid].namespace}
           /\ calls' = [calls EXCEPT ![p] = Append(@, "delete_namespace")]
           /\ Returns(p, tid, cur[p].err)
    /\ UNCHANGED << subscriptions, databases, dbusers, releases, args, cur,
                    track, ncalls, nfaults, ncrashes, interrupted, lifecycle >>

\* The commit of the except handler.  New path (line 194): Tenant failed,
\* log closed failed with the error and the completion time read before.
\* Resume path (line 219): Tenant failed unless it was loaded failed, no
\* log.
Fail(p) ==
    /\ pc[p] = "fail"
    /\ LET tid == cur[p].tid
       IN  /\ tenants' = FailedStatusWrite(p, tid)
           /\ logs' = IF cur[p].path = "new"
                      THEN [logs EXCEPT
                              ![cur[p].lid].status = "failed",
                              ![cur[p].lid].error_details = cur[p].err,
                              ![cur[p].lid].completed_at = cur[p].now]
                      ELSE logs
           /\ Returns(p, tid, cur[p].err)
    /\ UNCHANGED << subscriptions, extvars, args, cur, calls, track, ncalls,
                    nfaults, ncrashes, interrupted, lifecycle >>

\* The worker process dies in the middle of a call: nothing uncommitted
\* survives, everything committed and every external effect stays.
Crash(p) ==
    /\ pc[p] \notin {"idle", "done"}
    /\ ncrashes < MaxCrashes
    /\ ncrashes' = ncrashes + 1
    /\ interrupted' = IF cur[p].path = "new"
                      THEN interrupted \cup {args[p]} ELSE interrupted
    /\ pc' = [pc EXCEPT ![p] = "idle"]
    /\ args' = [args EXCEPT ![p] = NoIntent]
    /\ cur' = [cur EXCEPT ![p] = NoLocals]
    /\ result' = [result EXCEPT ![p] = NoResult]
    /\ calls' = [calls EXCEPT ![p] = <<>>]
    /\ track' = [track EXCEPT ![p] = NoTrack]
    /\ UNCHANGED << dbvars, extvars, ncalls, nfaults, lifecycle >>

Next ==
    \E p \in Procs :
        \/ \E i \in Intents : Call(p, i)
        \/ Guard(p)
        \/ Existing(p)
        \/ Insert(p)
        \/ MarkProvisioning(p)
        \/ NamespaceExists(p)
        \/ CreateNamespace(p)
        \/ DatabaseExists(p)
        \/ CreateDatabase(p)
        \/ CreateUser(p)
        \/ GrantDatabase(p)
        \/ FlushPrivileges(p)
        \/ ReleaseExists(p)
        \/ Install(p)
        \/ RunInstaller(p)
        \/ Succeed(p)
        \/ Fail(p)
        \/ Crash(p)

Spec == Init /\ [][Next]_vars

\* ------------------------------------------------------------------------
\* Lifecycle commands: the admin endpoints and the billing event handler
\* ------------------------------------------------------------------------
\* Tenant ids an administrator names and billing statuses an event carries.
TenantIds == {1}
BillingStatuses == {"past_due", "active", "canceled"}

\* The methods class TenantProvisioner defines.
TenantProvisionerMethods ==
    { "__init__", "provision_tenant", "_resume_provisioning",
      "_ensure_namespace", "_ensure_database", "_ensure_helm_release",
      "_database_exists", "_create_database", "_run_ca_installer",
      "_event_processed" }

\* provisioner.<name>(...): Python raises AttributeError for a name the
\* class does not define, before any statement of a method runs.
MethodLookup(name) ==
    IF name \in TenantProvisionerMethods THEN "bound" ELSE "AttributeError"

StatusOf(t) == IF t \in 1..Len(tenants) THEN tenants[t].status ELSE "absent"

\* What a lifecycle command did: the Tenant's status before and after, the
\* external calls it issued, and the answer its caller got.
CommandOutcome(op, t, after, cmds, err, http) ==
    [ op |-> op, tid |-> t, before |-> StatusOf(t), after |-> after,
      calls |-> cmds, raised |-> err # NoError, err |-> err, http |-> http ]

\* An endpoint or handler whose first statement on the provisioner is
\* provisioner.<name>(tenant_id): the lookup raises, nothing is written, the
\* framework (or handle_webhook's except) answers HTTP 500.
RaisesOnLookup(op, name, t) ==
    /\ Len(lifecycle) < MaxCommands
    /\ MethodLookup(name) = "AttributeError"
    /\ lifecycle' = Append(lifecycle,
          CommandOutcome(op, t, StatusOf(t), <<>>, MethodLookup(name), 500))

\* POST /admin/tenants/{tenant_id}/suspend
suspend_tenant(t) ==
    /\ RaisesOnLookup("suspend", "suspend_tenant", t)
    /\ UNCHANGED << dbvars, extvars, pc, args, cur, result, calls, track,
                    ncalls, nfaults, ncrashes, interrupted >>

\* POST /admin/tenants/{tenant_id}/resume
resume_tenant(t) ==
    /\ RaisesOnLookup("resume", "resume_tenant", t)
    /\ UNCHANGED << dbvars, extvars, pc, args, cur, result, calls, track,
                    ncalls, nfaults, ncrashes, interrupted >>

\* DELETE /tenants/{tenant_id}
delete_tenant(t) ==
    /\ RaisesOnLookup("delete", "delete_tenant", t)
    /\ UNCHANGED << dbvars, extvars, pc, args, cur, result, calls, track,
                    ncalls, nfaults, ncrashes, interrupted >>

\* customer.subscription.updated: the Subscription row gets the new billing
\* status and is committed; then past_due / unpaid asks for suspend_tenant,
\* active asks for resume_tenant, and any other status (canceled, trialing,
\* incomplete, ...) asks for nothing and is answered with success.  An
\* unknown subscription is logged and the event is answered with success.
handle_subscription_updated(sid, status) ==
    /\ IF \E i \in 1..Len(subscriptions) :
              subscriptions[i].stripe_subscription_id = sid
       THEN LET i == CHOOSE k \in 1..Len(subscriptions) :
                       /\ subscriptions[k].stripe_subscription_id = sid
                       /\ \A j \in 1..(k - 1) :
                            subscriptions[j].stripe_subscription_id # sid
            IN  /\ subscriptions' = [subscriptions EXCEPT ![i].status = status]
                /\ IF status \in {"past_due", "unpaid"}
                   THEN RaisesOnLookup("suspend", "suspend_tenant",
                                       subscriptions[i].tenant_id)
                   ELSE IF status = "active"
                   THEN RaisesOnLookup("resume", "resume_tenant",
                                       subscriptions[i].tenant_id)
                   ELSE /\ Len(lifecycle) < MaxCommands
                        /\ lifecycle' = Append(lifecycle,
                              CommandOutcome("subscription_updated",
                                             subscriptions[i].tenant_id,
                                             StatusOf(subscriptions[i].tenant_id),
                                             <<>>, NoError, 200))
       ELSE /\ Len(lifecycle) < MaxCommands
            /\ lifecycle' = Append(lifecycle,
                  CommandOutcome("ignored", NoTenant, "absent", <<>>,
                                 NoError, 200))
            /\ UNCHANGED subscriptions
    /\ UNCHANGED << tenants, logs, extvars, pc, args, cur, result, calls,
                    track, ncalls, nfaults, ncrashes, interrupted >>

\* db.query(Subscription).filter(stripe_subscription_id == sid).first()
SubscriptionOf(sid) ==
    IF \E i \in 1..Len(subscriptions) :
           subscriptions[i].stripe_subscription_id = sid
    THEN CHOOSE k \in 1..Len(subscriptions) :
            /\ subscriptions[k].stripe_subscription_id = sid
            /\ \A j \in 1..(k - 1) :
                 subscriptions[j].stripe_subscription_id # sid
    ELSE 0

\* A handler that returns without touching the provisioner.
ReturnsQuietly(op, t) ==
    /\ Len(lifecycle) < MaxCommands
    /\ lifecycle' = Append(lifecycle,
          CommandOutcome(op, t, StatusOf(t), <<>>, NoError, 200))

\* customer.subscription.deleted: an unknown subscription is logged and
\* answered with success; otherwise the handler asks for suspend_tenant
\* first and would set the billing status to canceled and commit after it.
handle_subscription_deleted(sid) ==
    /\ IF SubscriptionOf(sid) = 0
       THEN ReturnsQuietly("ignored", NoTenant)
       ELSE RaisesOnLookup("subscription_deleted", "suspend_tenant",
                           subscriptions[SubscriptionOf(sid)].tenant_id)
    /\ UNCHANGED << dbvars, extvars, pc, args, cur, result, calls, track,
                    ncalls, nfaults, ncrashes, interrupted >>

\* invoice.payment_succeeded: asks for resume_tenant when the subscription
\* is known and its Tenant is not active; writes nothing itself.
handle_payment_succeeded(sid) ==
    /\ IF SubscriptionOf(sid) = 0
       THEN ReturnsQuietly("ignored", NoTenant)
       ELSE LET t == subscriptions[SubscriptionOf(sid)].tenant_id
            IN  IF tenants[t].status # ACTIVE
                THEN RaisesOnLookup("payment_succeeded", "resume_tenant", t)
                ELSE ReturnsQuietly("payment_succeeded", t)
    /\ UNCHANGED << dbvars, extvars, pc, args, cur, result, calls, track,
                    ncalls, nfaults, ncrashes, interrupted >>

\* invoice.payment_failed: looks the subscription up and logs a warning.
handle_payment_failed(sid) ==
    /\ IF SubscriptionOf(sid) = 0
       THEN ReturnsQuietly("ignored", NoTenant)
       ELSE ReturnsQuietly("payment_failed",
                           subscriptions[SubscriptionOf(sid)].tenant_id)
    /\ UNCHANGED << dbvars, extvars, pc, args, cur, result, calls, track,
                    ncalls, nfaults, ncrashes, interrupted >>

NextAdmin ==
    \/ Next
    \/ \E t \in TenantIds : suspend_tenant(t)
    \/ \E t \in TenantIds : resume_tenant(t)
    \/ \E t \in TenantIds : delete_tenant(t)
    \/ \E sid \in Subs, status \in BillingStatuses :
          handle_subscription_updated(sid, status)
    \/ \E sid \in Subs : handle_subscription_deleted(sid)
    \/ \E sid \in Subs : handle_payment_succeeded(sid)
    \/ \E sid \in Subs : handle_payment_failed(sid)

\* The orchestrator together with the admin endpoints and the
\* subscription-updated handler.
SpecAdmin == Init /\ [][NextAdmin]_vars

\* ------------------------------------------------------------------------
\* The Delete command as the design describes it
\* ------------------------------------------------------------------------
\* helm uninstall: a non-zero exit (the release is not there) or an
\* exception is (False, message), a zero exit (True, output).
uninstall_tenant(rels, r, o) ==
    IF o = "raise" THEN [rels |-> rels, ok |-> FALSE, msg |-> "error"]
    ELSE IF r \in rels
    THEN [rels |-> rels \ {r}, ok |-> TRUE, msg |-> "uninstalled"]
    ELSE [rels |-> rels, ok |-> FALSE, msg |-> "release: not found"]

\* Delete(tenantId): uninstalls the release and marks the Tenant deleted;
\* "release not found" counts as success; the row stays.
Delete(t) ==
    /\ Len(lifecycle) < MaxCommands
    /\ t \in 1..Len(tenants)
    /\ tenants[t].status \in {ACTIVE, SUSPENDED, FAILED}
    /\ LET r == uninstall_tenant(releases, tenants[t].helm_release_name, "ok")
       IN  /\ r.ok \/ r.msg = "release: not found"
           /\ releases' = r.rels
           /\ tenants' = [tenants EXCEPT ![t].status = DELETED]
           /\ lifecycle' = Append(lifecycle,
                 CommandOutcome("delete", t, DELETED, <<"helm_uninstall">>,
                                NoError, 200))
    /\ UNCHANGED << subscriptions, logs, namespaces, databases, dbusers, pc,
                    args, cur, result, calls, track, ncalls, nfaults,
                    ncrashes, interrupted >>

NextLifecycle ==
    \/ Next
    \/ \E t \in TenantIds : Delete(t)

\* The orchestrator together with the Delete command of the design.
SpecLifecycle == Init /\ [][NextLifecycle]_vars

\* ------------------------------------------------------------------------
\* Collaborators that do not answer
\* ------------------------------------------------------------------------
\* Positions whose external call is issued without a timeout: the cluster
\* client calls (no _request_timeout), the MySQL statements (no
\* read_timeout), subprocess.run of helm list / upgrade / history / rollback
\* (no timeout=; --timeout 300s bounds helm's wait for the workload, not the
\* helm process).  The two subprocess calls of _run_ca_installer carry
\* timeout=30 and timeout=120: a hang there is the outcome "timeout".
UnboundedCalls ==
    {"ns_exists", "ns_create", "db_exists", "db_create", "db_user",
     "db_grant", "db_flush", "rel_exists", "install", "helm_history", "helm_rollback", "helm_retry"}

\* The collaborator never answers: the call blocks and no statement after it
\* runs.
Hang(p) ==
    /\ pc[p] \in UnboundedCalls
    /\ nfaults < MaxFaults
    /\ nfaults' = nfaults + 1
    /\ pc' = [pc EXCEPT ![p] = "hung"]
    /\ track' = [track EXCEPT ![p].faulted = TRUE]
    /\ UNCHANGED << dbvars, extvars, args, cur, result, calls, ncalls,
                    ncrashes, interrupted, lifecycle >>

\* The statements of a running call: a worker that can go on does go on.
Step(p) ==
    \/ Guard(p)
    \/ Existing(p)
    \/ Insert(p)
    \/ MarkProvisioning(p)
    \/ NamespaceExists(p)
    \/ CreateNamespace(p)
    \/ DatabaseExists(p)
    \/ CreateDatabase(p)
    \/ CreateUser(p)
    \/ GrantDatabase(p)
    \/ FlushPrivileges(p)
    \/ ReleaseExists(p)
    \/ Install(p)
    \/ RunInstaller(p)
    \/ Succeed(p)
    \/ Fail(p)

NextLive ==
    \/ Next
    \/ \E p \in Procs : Hang(p)

\* The orchestrator with collaborators that may hang, every running call
\* being scheduled.
SpecLive ==
    Init /\ [][NextLive]_vars /\ \A p \in Procs : WF_vars(Step(p))

\* _handle_checkout_completed after provision_tenant: an exception of the
\* call leaves the handler; a returned error is logged; a return without
\* error reads tenant.namespace, which raises when no Tenant came back.
HandlerRaises(r) ==
    \/ r.raised
    \/ r.err = NoError /\ r.tenant = NoTenant

\* Variant: a returned provisioning error is answered as a server error.
WebhookStatus_error_is_500(r) ==
    IF HandlerRaises(r) \/ r.err # NoError THEN 500 ELSE 200

\* handle_webhook around the event handler: an exception that leaves the
\* handler becomes HTTP 500, anything else answers {"status": "success"}.
WebhookStatus(r) == IF HandlerRaises(r) THEN 500 ELSE 200

\* ========================================================================
\* Properties
\* ========================================================================
LogsOfEvent(e) == { i \in 1..Len(logs) : logs[i].stripe_event_id = e }

\* Tenants linked, through a Subscription row, to an external subscription id
TenantsLinkedTo(sid) ==
    { t \in 1..Len(tenants) :
        \E i \in 1..Len(subscriptions) :
            /\ subscriptions[i].stripe_subscription_id = sid
            /\ subscriptions[i].tenant_id = t }

\* The worker's call carries an event id for which another call has created
\* the Tenant: the log row with the event id is committed and this call
\* inserted nothing.
ReplayOfEvent(p) ==
    /\ args[p].ev # NoEvent
    /\ LogsOfEvent(args[p].ev) # {}
    /\ track[p].rows = 0

\* C1: of the calls that carry the same non-empty event id exactly one
\* creates a Tenant (one Tenant and one log row exist for the event), and
\* every other one issues no namespace, database, release or installer
\* call, inserts no row, and returns that Tenant with no error.
C1_EventReplayIsNoOp ==
    /\ \A e \in Events :
         LogsOfEvent(e) # {} =>
            /\ Cardinality(LogsOfEvent(e)) = 1
            /\ Cardinality(TenantsLinkedTo(SubOfEvent(e))) = 1
            /\ \A i \in LogsOfEvent(e) :
                 logs[i].tenant_id \in TenantsLinkedTo(SubOfEvent(e))
    /\ \A p \in Procs :
         ReplayOfEvent(p) =>
            /\ calls[p] = <<>>
            /\ pc[p] = "done" =>
                 /\ ~result[p].raised
                 /\ result[p].err = NoError
                 /\ result[p].tenant # NoTenant
                 /\ TenantsLinkedTo(args[p].sub) = {result[p].tenant}

\* C2: at most one committed Tenant is linked to any external subscription
\* id, whatever the interleaving of the calls for it.
C2_OneTenantPerSubscription ==
    \A s \in Subs : Cardinality(TenantsLinkedTo(s)) <= 1

\* C2 witness: a second new-tenant insert for an already linked subscription
\* was attempted and refused.
C2_Witness ==
    \E p \in Procs :
        /\ pc[p] = "done"
        /\ track[p].conflict
        /\ Cardinality(TenantsLinkedTo(args[p].sub)) = 1

\* C3: a call whose insert hits the uniqueness conflict re-reads and returns
\* the Tenant created by the other call, with no error and no exception, and
\* the billing event source is not answered with HTTP 500.
C3_ConflictReturnsExistingTenant ==
    \A p \in Procs :
        (pc[p] = "done" /\ track[p].conflict) =>
            /\ ~result[p].raised
            /\ result[p].err = NoError
            /\ result[p].tenant # NoTenant
            /\ result[p].tenant = TenantOfSub(args[p].sub)
            /\ WebhookStatus(result[p]) = 200

\* C4: provision_tenant never raises; every call returns a (Tenant, error)
\* pair whose Tenant is a persisted row.
C4_NeverRaises ==
    \A p \in Procs :
        pc[p] = "done" =>
            /\ ~result[p].raised
            /\ result[p].tenant \in 1..Len(tenants)

\* The Tenant.status state machine: pending -> provisioning -> {active, failed};
\* active <-> suspended; {active, suspended, failed} -> deleted; failed
\* re-enters through the resume path only.
AllowedTransition(from, to, byResume) ==
    \/ from = PENDING /\ to = PROVISIONING
    \/ from = PROVISIONING /\ to \in {ACTIVE, FAILED}
    \/ from = ACTIVE /\ to = SUSPENDED
    \/ from = SUSPENDED /\ to = ACTIVE
    \/ from \in {ACTIVE, SUSPENDED, FAILED} /\ to = DELETED
    \/ from = FAILED /\ to = ACTIVE /\ byResume

\* The step taken writes on behalf of a worker that is on the resume path.
StepByResume ==
    \E p \in Procs : pc[p] # pc'[p] /\ cur[p].path = "resume"

\* C5: Tenant.status changes only along the state machine, and a new Tenant
\* row starts in pending.
C5_StatusFollowsStateMachine ==
    [][ /\ \A t \in 1..Len(tenants) :
             tenants'[t].status # tenants[t].status =>
                AllowedTransition(tenants[t].status, tenants'[t].status,
                                  StepByResume)
        /\ \A t \in (Len(tenants) + 1)..Len(tenants') :
             tenants'[t].status = PENDING ]_vars

\* C6: a call that resumes a failed Tenant and meets no collaborator failure
\* ends with the Tenant active, a fresh deployment timestamp and no error.
C6_ResumeOfFailedSucceeds ==
    \A p \in Procs :
        ( /\ pc[p] = "done"
          /\ cur[p].path = "resume"
          /\ track[p].status0 = FAILED
          /\ ~track[p].faulted ) =>
            /\ result[p].err = NoError
            /\ tenants[cur[p].tid].status = ACTIVE
            /\ tenants[cur[p].tid].deployed_at >= track[p].t0

\* C7: re-invoking provision_tenant with the intent of an attempt that crashed
\* after its first commit (Tenant left pending or provisioning), all
\* collaborators succeeding, brings the Tenant to active.
C7_ReinvokeAfterCrashReachesActive ==
    \A p \in Procs :
        ( /\ pc[p] = "done"
          /\ track[p].recov
          /\ ~track[p].faulted ) =>
            /\ TenantOfSub(args[p].sub) # NoTenant
            /\ tenants[TenantOfSub(args[p].sub)].status = ACTIVE

\* C8 as stated: on the resume path of a failed Tenant a create/install call
\* is issued only for a resource that did not exist when the step checked.
C8_ResumeCreatesOnlyAbsentResources ==
    \A p \in Procs :
        (cur[p].path = "resume" /\ track[p].status0 = FAILED) =>
            /\ InCalls(p, "create_namespace") =>
                 track[p].ns_chk \in {"notfound", "error_absent"}
            /\ InCalls(p, "create_database") => track[p].db_chk = "notfound"
            /\ ~InCalls(p, "helm_install")

\* What the calls of a resuming worker and the answers of its existence
\* checks must show.
ResumeChecksBeforeCreate(p) ==
    cur[p].path = "resume" =>
        /\ track[p].ns_chk = "found" => ~InCalls(p, "create_namespace")
        /\ InCalls(p, "create_namespace") =>
             track[p].ns_chk \in {"notfound", "error_present", "error_absent"}
        /\ track[p].db_chk \in {"found", "error"} =>
             ~InCalls(p, "create_database")
        /\ InCalls(p, "create_database") => track[p].db_chk = "notfound"
        /\ ~InCalls(p, "release_exists")
        /\ ~InCalls(p, "helm_install")

\* C8 amended: on the resume path a create call is issued only after the
\* step's existence check did not report the resource; a resource the check
\* found gets no create call; a namespace whose check failed is treated as
\* absent, and the create then issued for an existing namespace changes
\* nothing: no step of a resume whose check met the namespace (found, or
\* failed while it was there) changes the cluster, none whose database check
\* found the database or failed changes the database server; the release
\* step issues no call.
C8_ResumeCreatesOnlyWhenCheckSaysAbsent ==
    [][ \A p \in Procs :
          /\ ResumeChecksBeforeCreate(p)'
          /\ (pc'[p] # pc[p] /\ cur[p].path = "resume") =>
                /\ track[p].ns_chk \in {"found", "error_present"} =>
                      namespaces' = namespaces
                /\ track[p].db_chk \in {"found", "error"} =>
                      /\ databases' = databases
                      /\ dbusers' = dbusers ]_vars

\* C8 witness: the resume of a failed Tenant whose namespace exists met a
\* failing namespace check, issued create_namespace, which changed nothing,
\* and has returned.
C8_Witness ==
    \E p \in Procs :
        /\ pc[p] = "done"
        /\ cur[p].path = "resume"
        /\ track[p].status0 = FAILED
        /\ track[p].ns_chk = "error_present"
        /\ InCalls(p, "create_namespace")
        /\ tenants[cur[p].tid].namespace \in namespaces

CreationErrors ==
    { "Failed to create namespace", "Failed to create tenant database",
      "Helm install failed", "history_error", "history_output_error",
      "rollback_error", "retry_error", "OSError", "ConnectionError" }

\* The identities the new-tenant path may generate.
IdentitiesDrawn ==
    { [ namespace |-> k8s_namespace(sfx),
        helm_release_name |-> helm_release_name(sfx),
        db_name |-> db_name_of(sfx),
        db_user |-> db_user_of(sfx) ] : sfx \in Suffixes }

\* C9: each creation operation is idempotent: run twice with the same
\* arguments against a responsive collaborator, the second run reports
\* success and leaves what the first run left; and no call of a worker
\* reports a creation error unless a collaborator failed.
C9_CreationIsIdempotent ==
    /\ \A i \in IdentitiesDrawn :
         LET n == i.namespace
             a == create_namespace(namespaces, n, "ok")
             b == create_namespace(a.nss, n, "ok")
         IN  a.ret /\ b.ret /\ n \in a.nss /\ b.nss = a.nss
    /\ \A i \in IdentitiesDrawn :
         LET d == i.db_name
             u == i.db_user
             a == create_database(databases, dbusers, d, u, "ok")
             b == create_database(a.dbs, a.users, d, u, "ok")
         IN  /\ a.ret /\ b.ret
             /\ d \in a.dbs /\ u \in a.users
             /\ b.dbs = a.dbs /\ b.users = a.users
    /\ \A i \in IdentitiesDrawn :
         LET r == i.helm_release_name
             a == install_tenant(releases, r, "ok")
             b == install_tenant(a.rels, r, "ok")
         IN  /\ a.ok /\ b.ok /\ ~a.raised /\ ~b.raised
             /\ r \in a.rels /\ b.rels = a.rels
    /\ \A p \in Procs :
         cur[p].err \in CreationErrors => track[p].faulted

\* C9 witness: two workers found the namespace of the same Tenant absent
\* and both issued create_namespace with no failure; the second create met
\* the namespace the first had created, and its worker went on without
\* error.
C9_Witness ==
    \E p \in Procs : \E q \in Procs \ {p} :
        /\ cur[q].tid = cur[p].tid
        /\ InCalls(p, "create_namespace")
        /\ InCalls(q, "create_namespace")
        /\ track[p].ns_chk = "notfound"
        /\ track[q].ns_chk = "notfound"
        /\ ~track[p].faulted
        /\ ~track[q].faulted
        /\ pc[p] = "db_exists"

\* C10: at the moment an attempt returns an error, the Tenant is failed and a
\* ProvisioningLog of the Tenant is closed failed, with a completion
\* timestamp and the error detail of this attempt; the error is returned.
C10_FailureClosesLog ==
    [][ \A p \in Procs :
          ( /\ pc[p] # "done"
            /\ pc'[p] = "done"
            /\ cur'[p].path \in {"new", "resume"}
            /\ cur'[p].err # NoError ) =>
              /\ result'[p].err = cur'[p].err
              /\ result'[p].tenant = cur'[p].tid
              /\ tenants'[cur'[p].tid].status = FAILED
              /\ \E i \in 1..Len(logs') :
                   /\ logs'[i].tenant_id = cur'[p].tid
                   /\ logs'[i].status = "failed"
                   /\ logs'[i].completed_at # NoTime
                   /\ logs'[i].error_details = cur'[p].err ]_vars

\* C11: when every step of a new-tenant attempt succeeds, the attempt returns
\* (tenant, no error) and at that moment the Tenant is active with its
\* deployment time set and its instance-admin credential equal to the
\* installer's credential or to the sentinel, and the attempt's log is closed
\* completed with a completion timestamp.
C11_SuccessClosesAttempt ==
    [][ \A p \in Procs :
          ( /\ pc[p] # "done"
            /\ pc'[p] = "done"
            /\ cur'[p].path = "new"
            /\ cur'[p].err = NoError ) =>
              LET t == tenants'[cur'[p].tid]
                  l == logs'[cur'[p].lid]
              IN  /\ result'[p] = [tenant |-> cur'[p].tid, err |-> NoError,
                                    raised |-> FALSE]
                  /\ t.status = ACTIVE
                  /\ t.deployed_at # NoTime
                  /\ t.ca_admin_password \in {"generated", InstallerSentinel}
                  /\ l.tenant_id = cur'[p].tid
                  /\ l.status = "completed"
                  /\ l.completed_at # NoTime ]_vars

\* C11 witness: a new-tenant attempt has returned without error; the Tenant is
\* active with the installer's credential and the log is closed completed.
C11_Witness ==
    \E p \in Procs :
        /\ pc[p] = "done"
        /\ cur[p].path = "new"
        /\ result[p].err = NoError
        /\ tenants[cur[p].tid].status = ACTIVE
        /\ tenants[cur[p].tid].ca_admin_password = "generated"
        /\ logs[cur[p].lid].status = "completed"

\* The helm commands among the external calls of a worker's running call
HelmCmdsOf(p) ==
    SelectSeq(calls[p],
              LAMBDA c : c \in {"helm_install", "helm_history", "helm_rollback"})

CountOf(seq, c) == Cardinality({ k \in 1..Len(seq) : seq[k] = c })

\* C12: when the install fails with the lock signature, install_tenant runs
\* history, then rollback, then the original install once more, each only
\* after the one before it came back; in one install_tenant call the install
\* command runs at most twice and the rollback at most once, and without the
\* lock signature exactly one install and nothing else runs.
C12_LockRecoveryRetriesOnce ==
    \A p \in Procs :
        LET h == HelmCmdsOf(p)
            o == track[p].helm
        IN  /\ CountOf(h, "helm_install") <= 2
            /\ CountOf(h, "helm_rollback") <= 1
            /\ o \in {"none", "oserror"} => h = <<>>
            /\ o \in {"ok", "err"} => h = <<"helm_install">>
            /\ o = "locked" =>
                 /\ Len(h) \in 1..3
                 /\ h = SubSeq(LockRecoveryCmds, 1, Len(h))
                 /\ pc[p] \in {HelmPositions[Len(h) + 1], "hung"}
            /\ o = "locked_history_oserror" => h = <<"helm_install">>
            /\ o \in {"locked_history_err", "locked_history_bad_output",
                       "locked_rollback_oserror"} =>
                 h = <<"helm_install", "helm_history">>
            /\ o \in {"locked_rollback_err", "locked_retry_oserror"} =>
                 h = <<"helm_install", "helm_history", "helm_rollback">>
            /\ o \in {"locked_ok", "locked_retry_err"} =>
                 h = <<"helm_install", "helm_history", "helm_rollback",
                       "helm_install">>

\* C12 witness: an install hit the lock, recovered and the retry succeeded.
C12_Witness ==
    \E p \in Procs :
        /\ track[p].helm = "locked_ok"
        /\ pc[p] = "succeed"
        /\ CountOf(HelmCmdsOf(p), "helm_install") = 2
        /\ CountOf(HelmCmdsOf(p), "helm_rollback") = 1

\* C13: after a lock failure and rollback, a retry that succeeds lets the
\* attempt go on and return without error with the Tenant active; a retry
\* that fails makes the attempt return the retry's error, with the Tenant
\* failed and the retry's error recorded in the attempt's log.
C13_RetryOutcomeDecides ==
    [][ \A p \in Procs :
          /\ track'[p].helm = "locked_ok" =>
                /\ pc'[p] \in {"installer", "succeed", "done"}
                /\ cur'[p].err = NoError
                /\ tenants'[cur'[p].tid].helm_release_name \in releases'
                /\ (pc[p] # "done" /\ pc'[p] = "done") =>
                      /\ result'[p].err = NoError
                      /\ tenants'[cur'[p].tid].status = ACTIVE
          /\ ( /\ track'[p].helm = "locked_retry_err"
               /\ pc[p] # "done"
               /\ pc'[p] = "done" ) =>
                /\ result'[p].err = "retry_error"
                /\ ~result'[p].raised
                /\ tenants'[cur'[p].tid].status = FAILED
                /\ logs'[cur'[p].lid].status = "failed"
                /\ logs'[cur'[p].lid].error_details = "retry_error" ]_vars

\* C13 witness: an attempt whose retried install failed has returned; the
\* Tenant is failed and the log carries the retry's error.
C13_Witness ==
    \E p \in Procs :
        /\ pc[p] = "done"
        /\ track[p].helm = "locked_retry_err"
        /\ tenants[cur[p].tid].status = FAILED
        /\ logs[cur[p].lid].error_details = "retry_error"

\* C14: when the database check finds the tenant database, the attempt
\* never invokes the database create operation and its next step is the
\* release step (the release existence query).
C14_ExistingDatabaseSkipsCreate ==
    [][ \A p \in Procs :
          /\ track'[p].db_chk = "found" =>
                \A k \in 1..Len(calls'[p]) : calls'[p][k] # "create_database"
          /\ (pc[p] = "db_exists" /\ track'[p].db_chk = "found") =>
                pc'[p] = "rel_exists" ]_vars

Letters ==
    {"a", "b", "c", "d", "e", "f", "g", "h", "i", "j", "k", "l", "m",
     "n", "o", "p", "q", "r", "s", "t", "u", "v", "w", "x", "y", "z",
     "A", "B", "C", "D", "E", "F", "G", "H", "I", "J", "K", "L", "M",
     "N", "O", "P", "Q", "R", "S", "T", "U", "V", "W", "X", "Y", "Z"}
Digits == {"0", "1", "2", "3", "4", "5", "6", "7", "8", "9"}

SafeChars == Letters \cup Digits \cup {"_"}

\* The string is not empty, uses only letters, digits and "_" and ends with sfx.
SafeNameWith(str, sfx) ==
    /\ Len(str) > Len(sfx)
    /\ \A k \in 1..Len(str) : str[k] \in SafeChars
    /\ SubSeq(str, Len(str) - Len(sfx) + 1, Len(str)) = sfx

\* C15: on the new-tenant path the suffix is 8 hex digits; the namespace is
\* "<prefix>-<suffix>", the release name is the namespace, the domain is
\* "<namespace>.<base domain>"; the database name, the principal and the
\* instance application name end with that suffix and use only letters,
\* digits and "_"; the install command carries these values and the storage
\* size of the plan ("100Gi" for pro, the configured default for a plan the
\* map does not know); and an attempt in which no collaborator call failed
\* returns no error with the Tenant active.  (Stated for every step of the
\* attempt.)
C15_IdentityAndStorageOfNewTenant ==
    [][ \A p \in Procs :
          (pc'[p] # pc[p] /\ cur'[p].path = "new") =>
            LET t == tenants'[cur'[p].tid]
                sfx == cur'[p].sfx
                hs == track'[p].helm_set
            IN  /\ Len(sfx) = 8
                /\ \A k \in 1..Len(sfx) : sfx[k] \in HexDigits
                /\ t.namespace = KUBERNETES_NAMESPACE_PREFIX \o <<"-">> \o sfx
                /\ t.helm_release_name = t.namespace
                /\ t.domain = t.namespace \o <<".">> \o BASE_DOMAIN
                /\ SafeNameWith(t.db_name, sfx)
                /\ SafeNameWith(t.db_user, sfx)
                /\ t.plan = args'[p].plan
                /\ track'[p].helm # "none" =>
                      /\ hs.tenantName = t.helm_release_name
                      /\ hs.domain = t.domain
                      /\ hs.database_name = t.db_name
                      /\ hs.database_user = t.db_user
                      /\ SafeNameWith(hs.caAppName, sfx)
                      /\ args'[p].plan = "pro" => hs.storageSize = "100Gi"
                      /\ args'[p].plan = "enterprise" =>
                            hs.storageSize = CA_STORAGE_SIZE
                /\ (pc'[p] = "done" /\ ~track'[p].faulted) =>
                      /\ result'[p].err = NoError
                      /\ t.status = ACTIVE
                      /\ track'[p].helm = "ok" ]_vars

\* C15 witness: a new-tenant attempt for a plan the storage map does not
\* know met no failure and returned with the Tenant active.
C15_Witness ==
    \E p \in Procs :
        /\ pc[p] = "done"
        /\ cur[p].path = "new"
        /\ args[p].plan = "enterprise"
        /\ ~track[p].faulted
        /\ track[p].helm_set.storageSize = CA_STORAGE_SIZE
        /\ tenants[cur[p].tid].status = ACTIVE

\* C16: a step of provision_tenant that finds the subscription's Tenant
\* active (at the idempotency guard or at the existing-tenant check) writes
\* no Tenant, Subscription or log row or field and touches no external
\* system; the call has issued no external call, never enters the resume or
\* the new-tenant path, and returns that Tenant with no error.
C16_ActiveTenantReturnedUnchanged ==
    [][ \A p \in Procs :
          LET t == TenantOfSub(args[p].sub)
          IN  ( /\ pc[p] \in {"guard", "existing"}
                /\ pc'[p] \notin {pc[p], "idle"}
                /\ t # NoTenant
                /\ tenants[t].status = ACTIVE ) =>
                  /\ UNCHANGED << tenants, subscriptions, logs >>
                  /\ UNCHANGED << namespaces, databases, dbusers, releases >>
                  /\ calls'[p] = <<>>
                  /\ track'[p].rows = 0
                  /\ cur'[p].path = "none"
                  /\ pc'[p] \in {"existing", "done"}
                  /\ pc[p] = "existing" => pc'[p] = "done"
                  /\ pc'[p] = "done" =>
                        result'[p] = [tenant |-> t, err |-> NoError,
                                      raised |-> FALSE] ]_vars

\* C16 witness: a call without a processed event id found the Tenant active
\* at the existing-tenant check and returned it.
C16_Witness ==
    \E p \in Procs :
        /\ pc[p] = "done"
        /\ ~track[p].dup
        /\ ~result[p].raised
        /\ cur[p].path = "none"
        /\ result[p].tenant # NoTenant
        /\ result[p].err = NoError
        /\ tenants[result[p].tenant].status = ACTIVE
        /\ calls[p] = <<>>

\* C18: whichever way the in-instance installer fails (a raising or timed out
\* command, no pod, a non-zero exit, no credential line) the runner yields
\* no credential, and the attempt still returns (tenant, no error) with the
\* Tenant active, the sentinel credential stored and the log closed
\* completed.
C18_InstallerFailureIsNotFatal ==
    [][ \A p \in Procs :
          ( /\ pc[p] # "done"
            /\ pc'[p] = "done"
            /\ track'[p].inst \in InstallerFailures ) =>
              /\ run_ca_installer(track'[p].inst) = NoPassword
              /\ result'[p] = [tenant |-> cur'[p].tid, err |-> NoError,
                                raised |-> FALSE]
              /\ tenants'[cur'[p].tid].status = ACTIVE
              /\ tenants'[cur'[p].tid].ca_admin_password = InstallerSentinel
              /\ logs'[cur'[p].lid].status = "completed" ]_vars

\* C18 witness: the installer command timed out and the attempt returned
\* with the Tenant active and the sentinel credential.
C18_Witness ==
    \E p \in Procs :
        /\ pc[p] = "done"
        /\ track[p].inst = "timeout"
        /\ result[p].err = NoError
        /\ tenants[cur[p].tid].status = ACTIVE
        /\ tenants[cur[p].tid].ca_admin_password = InstallerSentinel

\* C19: a suspend command on an active Tenant leaves it suspended, a resume
\* command on a suspended Tenant leaves it active, both answer without an
\* exception, and neither issues a cluster, database or release call.
C19_SuspendResumeArePureTransitions ==
    \A k \in 1..Len(lifecycle) :
        LET c == lifecycle[k]
        IN  /\ c.op \in {"suspend", "resume"} => c.calls = <<>>
            /\ (c.op = "suspend" /\ c.before = ACTIVE) =>
                  /\ ~c.raised
                  /\ c.after = SUSPENDED
            /\ (c.op = "resume" /\ c.before = SUSPENDED) =>
                  /\ ~c.raised
                  /\ c.after = ACTIVE

\* C20: a delete command on an active, suspended or failed Tenant answers
\* with success and leaves the Tenant deleted and its row kept, also when
\* the release manager reports the release as not found.
C20_DeleteMarksDeleted ==
    \A k \in 1..Len(lifecycle) :
        LET c == lifecycle[k]
        IN  (c.op = "delete" /\ c.before \in {ACTIVE, SUSPENDED, FAILED}) =>
              /\ ~c.raised
              /\ c.http = 200
              /\ c.after = DELETED
              /\ c.tid \in 1..Len(tenants)

\* C17: deleted is terminal: no step changes the status of a deleted Tenant,
\* and a provision_tenant call made for the subscription of a deleted Tenant
\* does not enter the resume path and issues no external call.
C17_DeletedIsTerminal ==
    [][ /\ \A t \in 1..Len(tenants) :
             tenants[t].status = DELETED => tenants'[t].status = DELETED
        /\ \A p \in Procs :
             track'[p].began_deleted =>
                /\ cur'[p].path # "resume"
                /\ calls'[p] = <<>> ]_vars

\* C21: whenever a ProvisioningLog row carrying an event id is committed, the
\* handling of that event has finished: every such row is closed completed
\* or failed and its Tenant is neither pending nor provisioning; so the
\* idempotency guard reports no event as processed while it is unfinished.
C21_EventLogMeansHandled ==
    \A e \in Events :
        \A i \in LogsOfEvent(e) :
            /\ logs[i].status \in {"completed", "failed"}
            /\ logs[i].completed_at # NoTime
            /\ tenants[logs[i].tenant_id].status \notin {PENDING, PROVISIONING}

SubscriptionsOf(t) ==
    { i \in 1..Len(subscriptions) : subscriptions[i].tenant_id = t }

\* C22: in every committed state each Tenant has exactly one Subscription,
\* each Subscription belongs to one existing Tenant and carries an external
\* id no other Subscription carries, and each Tenant has its create log:
\* the three rows are committed together or not at all, also when the
\* insert of the Subscription is refused.
C22_TenantAndSubscriptionPaired ==
    /\ \A t \in 1..Len(tenants) :
         /\ Cardinality(SubscriptionsOf(t)) = 1
         /\ \E l \in 1..Len(logs) :
              logs[l].tenant_id = t /\ logs[l].action = CREATE
    /\ \A i \in 1..Len(subscriptions) :
         /\ subscriptions[i].tenant_id \in 1..Len(tenants)
         /\ \A j \in 1..Len(subscriptions) :
              subscriptions[j].stripe_subscription_id
                  = subscriptions[i].stripe_subscription_id => j = i

\* C22 witness: a call flushed a Tenant row with a fresh identity, the insert
\* of its Subscription was refused, and the tables hold one Tenant with its
\* one Subscription.
C22_Witness ==
    \E p \in Procs :
        /\ pc[p] = "done"
        /\ track[p].refused = "subscription"
        /\ Len(tenants) = 1
        /\ Len(subscriptions) = 1

\* C23: every provisioning attempt terminates: an attempt that has entered
\* the new-tenant or the resume path eventually returns with its Tenant
\* failed or active (or its worker dies), also when an external call hangs.
C23_AttemptsTerminate ==
    \A p \in Procs :
        (cur[p].path \in {"new", "resume"} /\ pc[p] \notin {"idle", "done"})
            ~> \/ pc[p] = "idle"
               \/ /\ pc[p] = "done"
                  /\ cur[p].tid \in 1..Len(tenants)
                  /\ tenants[cur[p].tid].status \in {FAILED, ACTIVE}

\* The step an external call belongs to: 1 namespace, 2 database, 3 release,
\* 4 in-instance installer.
StepOf(c) ==
    CASE c \in {"namespace_exists", "create_namespace"} -> 1
      [] c \in {"database_exists", "create_database"} -> 2
      [] c \in {"release_exists", "helm_install", "helm_history",
                "helm_rollback"} -> 3
      [] OTHER -> 4

\* The step in which an error of the try block arises.
FailedStep(e) ==
    CASE e \in {"ConnectionError", "Failed to create namespace"} -> 1
      [] e \in {"OperationalError", "Failed to create tenant database"} -> 2
      [] OTHER -> 3

\* Some call of step n is among the external calls of the worker's call.
StepIssued(p, n) == \E k \in 1..Len(calls[p]) : StepOf(calls[p][k]) = n

\* The external calls of the worker's call are in step order, each step
\* began only with the earlier steps' resources there, and a failed step is
\* the last one that issued a call.
StepsInOrder(p) ==
        LET c == calls[p]
            t == cur[p].tid
            \* the step of the latest call: the furthest step, by the order
            last == IF c = <<>> THEN 0 ELSE StepOf(c[Len(c)])
        IN  /\ \A k \in 1..(Len(c) - 1) : StepOf(c[k]) <= StepOf(c[k + 1])
            /\ c # <<>> => StepOf(c[1]) = 1
            /\ last >= 2 => tenants[t].namespace \in namespaces
            /\ last >= 3 =>
                  /\ StepIssued(p, 2)
                  /\ tenants[t].db_name \in databases
            /\ last >= 4 =>
                  /\ StepIssued(p, 3)
                  /\ tenants[t].helm_release_name \in releases
            /\ cur[p].err # NoError =>
                  /\ pc[p] \in {"fail", "done"}
                  /\ last <= FailedStep(cur[p].err)

\* C24: within one attempt the external calls are issued in the order
\* namespace, database, release, installer; a call of a step is issued only
\* when every earlier step has succeeded (its resource is there); and once a
\* step has failed, the attempt is in its failure handler or has returned and
\* has issued no call of a later step.  (Stated after every step of a
\* worker.)
C24_StepsInOrder ==
    [][ \A p \in Procs : pc'[p] # pc[p] => StepsInOrder(p)' ]_vars

\* C24 witness: an attempt whose namespace step succeeded failed in the
\* database create and returned after exactly these four calls.
C24_Witness ==
    \E p \in Procs :
        /\ pc[p] = "done"
        /\ cur[p].err = "Failed to create tenant database"
        /\ calls[p] = << "namespace_exists", "create_namespace",
                         "database_exists", "create_database" >>

\* C25: on the new-tenant path the first commit makes the Tenant (pending),
\* its Subscription and a create log (started) visible and issues no
\* external call; the second commit makes the Tenant provisioning and issues
\* no external call; and whenever the attempt has issued an external call,
\* those rows are committed and the Tenant is no longer pending.
C25_CommitsBeforeExternalCalls ==
    [][ \A p \in Procs :
          /\ (pc[p] = "insert" /\ pc'[p] = "mark_provisioning") =>
                LET t == cur'[p].tid
                IN  /\ t = Len(tenants) + 1
                    /\ tenants'[t].status = PENDING
                    /\ SubscriptionsOf(t) = {}
                    /\ \E i \in 1..Len(subscriptions') :
                         subscriptions'[i].tenant_id = t
                    /\ logs'[cur'[p].lid].tenant_id = t
                    /\ logs'[cur'[p].lid].status = "started"
                    /\ calls'[p] = <<>>
          /\ (pc[p] = "mark_provisioning"
                  /\ pc'[p] \notin {"mark_provisioning", "idle"}) =>
                /\ pc'[p] = "ns_exists"
                /\ tenants'[cur'[p].tid].status = PROVISIONING
                /\ calls'[p] = <<>>
          /\ (cur'[p].path = "new" /\ calls'[p] # <<>>) =>
                /\ pc[p] \notin {"guard", "existing", "insert",
                                 "mark_provisioning"}
                /\ tenants'[cur'[p].tid].status # PENDING
                /\ \E i \in 1..Len(subscriptions') :
                     subscriptions'[i].tenant_id = cur'[p].tid
                /\ logs'[cur'[p].lid].tenant_id = cur'[p].tid ]_vars

\* C25 witness: a new-tenant attempt has issued its first external call, the
\* namespace check, with its Tenant committed provisioning and its log
\* started.
C25_Witness ==
    \E p \in Procs :
        /\ cur[p].path = "new"
        /\ pc[p] = "ns_create"
        /\ calls[p] = << "namespace_exists" >>
        /\ tenants[cur[p].tid].status = PROVISIONING
        /\ logs[cur[p].lid].status = "started"

\* The external calls that create or query; none of them removes a resource.
ForwardCalls ==
    { "namespace_exists", "create_namespace", "database_exists",
      "create_database", "release_exists", "helm_install", "helm_history",
      "helm_rollback", "ca_installer" }

\* C26: no step of the orchestrator removes a namespace, a database, a
\* principal or a release; the failure handler touches no external system
\* and issues no call; a create that came back leaves its resource in place;
\* so what an attempt created before it failed is still there when it
\* returns: the namespace when it got past the namespace step, the database
\* when it got past the database step.
C26_NoCompensation ==
    [][ /\ namespaces \subseteq namespaces'
        /\ databases \subseteq databases'
        /\ dbusers \subseteq dbusers'
        /\ releases \subseteq releases'
        /\ \A p \in Procs :
             /\ \A k \in 1..Len(calls'[p]) : calls'[p][k] \in ForwardCalls
             /\ (pc[p] = "fail" /\ pc'[p] = "done") =>
                   /\ UNCHANGED << namespaces, databases, dbusers, releases >>
                   /\ calls'[p] = calls[p]
                   /\ InCalls(p, "database_exists") =>
                         tenants'[cur'[p].tid].namespace \in namespaces'
                   /\ InCalls(p, "release_exists") =>
                         tenants'[cur'[p].tid].db_name \in databases'
             /\ (pc[p] = "ns_create" /\ pc'[p] = "db_exists") =>
                   tenants'[cur'[p].tid].namespace \in namespaces'
             /\ (pc[p] = "db_create" /\ pc'[p] = "db_user") =>
                   tenants'[cur'[p].tid].db_name \in databases' ]_vars

\* C26 witness: an attempt that created the namespace and the database has
\* failed in the release step and returned; both are still there.
C26_Witness ==
    \E p \in Procs :
        /\ pc[p] = "done"
        /\ cur[p].err = "Helm install failed"
        /\ track[p].ns_chk = "notfound"
        /\ track[p].db_chk = "notfound"
        /\ InCalls(p, "create_namespace")
        /\ InCalls(p, "create_database")
        /\ tenants[cur[p].tid].status = FAILED
        /\ tenants[cur[p].tid].namespace \in namespaces
        /\ tenants[cur[p].tid].db_name \in databases
        /\ tenants[cur[p].tid].db_user \in dbusers

\* C27: every attempt that realizes resources, on the new-tenant path and on
\* the resume path, has a ProvisioningLog row of its own: started while the
\* attempt runs, closed completed or failed with a completion timestamp when
\* it has returned; and a closed row is never modified afterwards.
C27_EveryAttemptHasItsLog ==
    [][ /\ \A i \in 1..Len(logs) :
             logs[i].status \in {"completed", "failed"} => logs'[i] = logs[i]
        /\ \A p \in Procs :
             (cur'[p].path \in {"new", "resume"} /\ calls'[p] # <<>>) =>
                /\ cur'[p].lid \in 1..Len(logs')
                /\ logs'[cur'[p].lid].tenant_id = cur'[p].tid
                /\ \A q \in Procs \ {p} : cur'[q].lid # cur'[p].lid
                /\ pc'[p] # "done" => logs'[cur'[p].lid].status = "started"
                /\ pc'[p] = "done" =>
                      /\ logs'[cur'[p].lid].status \in {"completed", "failed"}
                      /\ logs'[cur'[p].lid].completed_at # NoTime ]_vars

\* The persisted identity of a Tenant row.
IdentityOf(row) ==
    << row.namespace, row.helm_release_name, row.domain, row.db_name,
       row.db_user >>

\* C28: a step of the resume path inserts no Tenant, Subscription or log row
\* and leaves the identity of every Tenant as persisted; and the resume
\* hands the persisted values to the namespace step, the database step and
\* the release step: once its database step has returned, the release step
\* runs with them (the call binds and the release existence query is
\* issued).
C28_ResumeUsesPersistedIdentity ==
    [][ \A p \in Procs :
          (pc'[p] # pc[p] /\ cur'[p].path = "resume") =>
            /\ Len(tenants') = Len(tenants)
            /\ Len(subscriptions') = Len(subscriptions)
            /\ track'[p].rows = 0
            /\ \A t \in 1..Len(tenants) :
                 IdentityOf(tenants'[t]) = IdentityOf(tenants[t])
            /\ cur'[p].err # "TypeError"
            /\ ( /\ pc[p] \in {"db_exists", "db_create", "db_user",
                              "db_grant", "db_flush"}
                 /\ cur'[p].err = NoError ) =>
                    pc'[p] \in {"db_create", "db_user", "db_grant",
                                "db_flush", "rel_exists"}
            /\ (pc'[p] = "done" /\ ~track'[p].faulted) =>
                  InCalls(p, "release_exists") ]_vars

\* The database step of the worker's running call has returned normally:
\* its check found the database, or its create reported success.
DatabaseStepReturned(p) ==
    \/ track[p].db_chk = "found"
    \/ /\ InCalls(p, "create_database")
       /\ pc[p] \notin {"db_user", "db_grant", "db_flush"}
       /\ cur[p].err # "Failed to create tenant database"

\* C29: whenever the database step has returned without error, the tenant
\* database exists and so does its principal with its grant, also when an
\* earlier attempt created the database and failed before the principal.
C29_DatabaseStepLeavesPrincipal ==
    \A p \in Procs :
        DatabaseStepReturned(p) =>
            /\ tenants[cur[p].tid].db_name \in databases
            /\ tenants[cur[p].tid].db_user \in dbusers

\* The external operations that are never repeated within one attempt.
SingleShotCalls ==
    { "namespace_exists", "create_namespace", "database_exists",
      "create_database", "release_exists", "helm_history", "helm_rollback",
      "ca_installer" }

\* No external operation of the worker's call was repeated, but the
\* install after a failure with the lock signature.
NoRetryIn(p) ==
        /\ \A i \in 1..Len(calls[p]) : \A j \in (i + 1)..Len(calls[p]) :
              calls[p][i] = calls[p][j] => calls[p][i] \notin SingleShotCalls
        /\ track[p].helm \notin {"locked_ok", "locked_retry_err"} =>
              CountOf(calls[p], "helm_install") <= 1
        /\ track[p].helm \in {"locked_ok", "locked_retry_err"} =>
              CountOf(calls[p], "helm_install") = 2
        /\ track[p].helm = "err" =>
              /\ CountOf(calls[p], "helm_install") = 1
              /\ ~InCalls(p, "helm_history")
              /\ ~InCalls(p, "helm_rollback")
              /\ ~InCalls(p, "ca_installer")
              /\ cur[p].err = "Helm install failed"
              /\ pc[p] \in {"fail", "done"}
        /\ cur[p].err \in {"Failed to create namespace",
                           "Failed to create tenant database"} =>
              /\ pc[p] \in {"fail", "done"}
              /\ ~StepIssued(p, 3)
              /\ ~StepIssued(p, 4)

\* C30: within one attempt every external operation is issued at most once,
\* except the install, which is issued a second time only after a failure
\* with the lock signature; an install failure without that signature ends
\* the release step after one install, with no history and no rollback call,
\* and fails the attempt.  (Stated after every step of a worker.)
C30_NoRetryButLockRecovery ==
    [][ \A p \in Procs : pc'[p] # pc[p] => NoRetryIn(p)' ]_vars

\* C30 witness: an install failed without the lock signature and the
\* attempt returned that failure after a single install command.
C30_Witness ==
    \E p \in Procs :
        /\ pc[p] = "done"
        /\ track[p].helm = "err"
        /\ result[p].err = "Helm install failed"
        /\ CountOf(calls[p], "helm_install") = 1
        /\ tenants[cur[p].tid].status = FAILED

\* The ends of install_tenant in which the lock recovery did not go through.
LockRecoveryFailures == InstallRaises \ {"oserror"}

\* C31: install_tenant reports every outcome as a value (ok, output|error):
\* when the lock recovery fails in its history query, its rollback or its
\* retried install, the call returns (False, error) and the release step
\* fails like after any other install failure, with nothing raised out of
\* install_tenant; when the recovery succeeds the caller sees plain success.
C31_InstallReportsByValue ==
    \A p \in Procs :
        LET o == track[p].helm
            r == install_tenant(releases, tenants[cur[p].tid].helm_release_name, o)
        IN  /\ o \in LockRecoveryFailures =>
                  /\ ~r.raised
                  /\ ~r.ok
                  /\ cur[p].err = "Helm install failed"
            /\ o = "locked_ok" =>
                  /\ ~r.raised
                  /\ r.ok
                  /\ r.err = NoError
                  /\ cur[p].err = NoError

\* C32: a subscription-deleted event for a known subscription is answered
\* without an exception, leaves the Subscription with billing status
\* canceled and its active Tenant suspended, and keeps both rows; and no
\* step, whatever the billing events, lowers the number of Tenant or
\* Subscription rows.
C32_CancellationKeepsRows ==
    [][ /\ Len(tenants') >= Len(tenants)
        /\ Len(subscriptions') >= Len(subscriptions)
        /\ ( /\ Len(lifecycle') > Len(lifecycle)
             /\ lifecycle'[Len(lifecycle')].op = "subscription_deleted"
             /\ lifecycle'[Len(lifecycle')].before = ACTIVE ) =>
               LET c == lifecycle'[Len(lifecycle')]
               IN  /\ ~c.raised
                   /\ c.http = 200
                   /\ tenants'[c.tid].status = SUSPENDED
                   /\ \A i \in 1..Len(subscriptions') :
                        subscriptions'[i].tenant_id = c.tid =>
                            subscriptions'[i].status = "canceled" ]_vars

\* C33: in every committed state a Tenant in status active has an
\* instance-admin credential: the installer's generated credential or the
\* sentinel, never the null it was inserted with.
C33_ActiveHasCredential ==
    \A t \in 1..Len(tenants) :
        tenants[t].status = ACTIVE =>
            tenants[t].ca_admin_password \in {"generated", InstallerSentinel}

\* C33 witness: a Tenant became active although no workload pod was found
\* for the installer, and carries the sentinel credential.
C33_Witness ==
    \E p \in Procs :
        /\ pc[p] = "done"
        /\ track[p].inst = "no_pod"
        /\ tenants[cur[p].tid].status = ACTIVE
        /\ tenants[cur[p].tid].ca_admin_password = InstallerSentinel
        /\ tenants[cur[p].tid].deployed_at # NoTime

\* C34: at the step that commits a Tenant as active, the Tenant's namespace,
\* database and release exist in the external systems; a namespace check
\* that failed was followed by the create call, and no attempt whose
\* database check failed gets there.
C34_ActiveMeansRealized ==
    [][ \A p \in Procs :
          (pc[p] = "succeed" /\ pc'[p] = "done") =>
            LET t == tenants'[cur'[p].tid]
            IN  /\ t.status = ACTIVE
                /\ t.namespace \in namespaces'
                /\ t.db_name \in databases'
                /\ t.helm_release_name \in releases'
                /\ track'[p].ns_chk \in {"error_present", "error_absent"} =>
                      InCalls(p, "create_namespace")
                /\ track'[p].db_chk # "error"
                /\ InCalls(p, "release_exists") ]_vars

\* C34 witness: the namespace check failed while the namespace was absent,
\* the step created it, and the attempt ended with the Tenant active.
C34_Witness ==
    \E p \in Procs :
        /\ pc[p] = "done"
        /\ track[p].ns_chk = "error_absent"
        /\ InCalls(p, "create_namespace")
        /\ result[p].err = NoError
        /\ tenants[cur[p].tid].status = ACTIVE
        /\ tenants[cur[p].tid].namespace \in namespaces

\* C35: for a checkout-completed event, handle_webhook answers success
\* whenever provision_tenant returned, with or without an error, and
\* answers HTTP 500 only when the handler raised.
C35_WebhookAnswersSuccessOnReturn ==
    [][ \A p \in Procs :
          (pc'[p] # pc[p] /\ pc'[p] = "done" /\ args'[p].ev # NoEvent) =>
            LET r == result'[p]
            IN  /\ ~r.raised => WebhookStatus(r) = 200
                /\ WebhookStatus(r) = 500 => r.raised ]_vars

\* C35 witness: a checkout-completed delivery whose provisioning returned an
\* error and left the Tenant failed, answered with success.
C35_Witness ==
    \E p \in Procs :
        /\ pc[p] = "done"
        /\ args[p].ev # NoEvent
        /\ ~result[p].raised
        /\ result[p].err # NoError
        /\ result[p].tenant # NoTenant
        /\ tenants[result[p].tenant].status = FAILED
        /\ WebhookStatus(result[p]) = 200

====
